---- MODULE Spec2Model ----
(***************************************************************************)
(* Intent-routing and response-aggregation workflow of the SMSA AI engine. *)
(*                                                                         *)
(* Two entry paths are modelled:                                           *)
(*   - the LangGraph workflow (orchestrator/graph.py): four nodes run in   *)
(*     sequence, classify_intent -> assemble_context -> route_to_agent ->  *)
(*     aggregate_response;                                                 *)
(*   - the legacy router (orchestrator/router.py) that the /orchestrator/  *)
(*     chat endpoint of main.py calls through route_message.               *)
(*                                                                         *)
(* Conventions.  Python None is the marker NONE.  A Python str is a TLA+   *)
(* string; the characters of a message are given by Text, and the          *)
(* classifier works on those characters; the values it extracts are        *)
(* character sequences.  A Python dict is a function whose DOMAIN is its   *)
(* key set.  Confidence scores are kept in tenths      *)
(* (10 stands for 1.0, 8 for 0.8, 3 for 0.3, 2 for 0.2).  Timestamps are   *)
(* the values of a logical clock that ticks at every insert.               *)
(***************************************************************************)
EXTENDS Integers, Sequences, FiniteSets, TLC

VARIABLES
    pc,             \* position of the turn in the workflow
    entry,          \* entry path serving the turn: "graph" or "router"
    state,          \* SMSAAIAssistantOrchestratorState / the router's context dict
    result,         \* what the entry point returned to its caller (NONE before)
    messages,       \* db.messages collection, in insertion order
    conversations,  \* db.conversations collection (set of conversation ids)
    obs,            \* OBS conversation context documents, by conversation id
    clock,          \* logical clock behind datetime.utcnow()
    dbMode,         \* behaviour of the storage backends: "up", "down", "flaky"
    turns,          \* number of turns received so far
    consulted,      \* the keyword classifier was called in this turn
    llmReply,       \* what the text-generation backend answered to classify_intent
    invoked,        \* handlers whose run() was called in this turn, in order
    handlerRaised,  \* the handler called in this turn raised
    context,        \* the context dict handed to the handler (NoneDict before)
    stages,         \* workflow nodes completed in this turn, in order
    dbCalls,        \* storage calls issued in this turn, in order
    log,            \* turns the workflow completed: what was received and returned
    events,         \* SSE events the chat endpoint has yielded for this request
    hpc,            \* position of a direct handler call: "idle", "called", "ran", "done"
    call,           \* the handler called, its context and what the backends answer
    ran,            \* what run(context) returned (NoneDict before)
    fragments,      \* the fragments run_stream(context) yielded, in order
    apiCalls,       \* provider API requests the handler issued, in order
    inside,         \* the handler instance's _inside_thinking flag
    streams,        \* the run_stream calls in progress on that instance
    uploads,        \* the POST /upload requests in progress, by request
    bucket,         \* keys of the objects upload_file put into the OBS bucket
    ensures         \* the ensure_conversation_exists calls in progress, by caller

\* the variables of the workflow
wfvars == << pc, entry, state, result, messages, conversations, obs, clock, dbMode,
             turns, consulted, llmReply, invoked, handlerRaised, context, stages,
             dbCalls, log, events >>

\* the variables of a direct handler call
hvars == << hpc, call, ran, fragments, apiCalls, inside >>

\* the variables of the streams served by one handler instance
svars == << streams >>

\* the variables of the upload endpoint
uvars == << uploads, bucket >>

\* the variables of concurrent ensure_conversation_exists calls
evars == << ensures >>

\* the variables the workflow actions leave alone
aux == << hvars, svars, uvars, evars >>

vars == << wfvars, aux >>

NONE == "None"

(***************************************************************************)
(* Bounds of the model.                                                    *)
(***************************************************************************)
MaxTurns == 2       \* turns per behaviour of the multi-turn specification
MaxExtra == 1       \* stored messages beyond the history limit at start

(***************************************************************************)
(* Python dict helpers.                                                    *)
(***************************************************************************)
EmptyDict == << >>

Get(d, k, default) == IF k \in DOMAIN d THEN d[k] ELSE default

Put(d, k, v) == [x \in (DOMAIN d) \cup {k} |-> IF x = k THEN v ELSE d[x]]

\* bool(x) for the optional values tested by the code: None and "" are falsy
Truthy(x) == x # NONE /\ x # ""

(***************************************************************************)
(* Text.  Messages are TLA+ strings; Text gives their characters.          *)
(***************************************************************************)
Messages ==
    { "hello", "Track my rate", "track 5kg", "price at office", "office faq",
      "rate 5kg Jeddah to Riyadh" }

Text(m) ==
    CASE m = "hello"         -> <<"h","e","l","l","o">>
      [] m = "Track my rate" -> <<"T","r","a","c","k"," ","m","y"," ","r","a","t","e">>
      [] m = "track 5kg"     -> <<"t","r","a","c","k"," ","5","k","g">>
      [] m = "price at office" ->
            <<"p","r","i","c","e"," ","a","t"," ","o","f","f","i","c","e">>
      [] m = "office faq"    -> <<"o","f","f","i","c","e"," ","f","a","q">>
      [] m = "rate 5kg Jeddah to Riyadh" ->
            <<"r","a","t","e"," ","5","k","g"," ","J","e","d","d","a","h"," ","t","o"," ",
              "R","i","y","a","d","h">>
      [] m = ""              -> << >>
      [] m = " "             -> <<" ">>
      [] m = "track 1234567890" ->
            <<"t","r","a","c","k"," ","1","2","3","4","5","6","7","8","9","0">>
      [] m = "track AWB 1234567890" ->
            <<"t","r","a","c","k"," ","A","W","B"," ","1","2","3","4","5","6","7","8","9","0">>
      [] m = "rate 5kg to Riyadh" ->
            <<"r","a","t","e"," ","5","k","g"," ","t","o"," ","R","i","y","a","d","h">>
      [] m = "rate Jeddah to Riyadh" ->
            <<"r","a","t","e"," ","J","e","d","d","a","h"," ","t","o"," ",
              "R","i","y","a","d","h">>

\* str.lower() on one character (the upper-case letters the messages use)
LowerChar(c) ==
    CASE c = "T" -> "t"
      [] c = "J" -> "j"
      [] c = "R" -> "r"
      [] c = "A" -> "a"
      [] c = "W" -> "w"
      [] c = "B" -> "b"
      [] OTHER   -> c

Lower(s) == [i \in 1..Len(s) |-> LowerChar(s[i])]

\* the Python test `k in s` on character sequences
Contains(s, k) ==
    \E i \in 0..(Len(s) - Len(k)) : \A j \in 1..Len(k) : s[i + j] = k[j]

\* any(k in s for k in ks)
AnyIn(ks, s) == \E n \in 1..Len(ks) : Contains(s, ks[n])

(***************************************************************************)
(* Intent classifier (orchestrator/intent_classifier.py).                  *)
(***************************************************************************)
Intents == { "TRACKING", "RATES", "LOCATIONS", "FAQ", "GENERAL", "AMBIGUOUS" }

TrackingKeywords == << <<"t","r","a","c","k">>, <<"a","w","b">>, <<"s","h","i","p","m","e","n","t">>, <<"p","a","c","k","a","g","e">> >>
RatesKeywords == << <<"r","a","t","e">>, <<"p","r","i","c","e">>, <<"c","o","s","t">>, <<"q","u","o","t","e">> >>
LocationsKeywords == << <<"b","r","a","n","c","h">>, <<"c","e","n","t","e","r">>, <<"o","f","f","i","c","e">>, <<"l","o","c","a","t","i","o","n">> >>
FaqKeywords == << <<"h","o","w"," ","d","o"," ","i">>, <<"w","h","a","t"," ","i","s">>, <<"f","a","q">>, <<"q","u","e","s","t","i","o","n">> >>

\* the keyword tests ending in AMBIGUOUS when nothing matches
classify_AmbiguousDefault(message) ==
    LET lower == Lower(Text(message)) IN
    IF AnyIn(TrackingKeywords, lower) THEN "TRACKING"
    ELSE IF AnyIn(RatesKeywords, lower) THEN "RATES"
    ELSE IF AnyIn(LocationsKeywords, lower) THEN "LOCATIONS"
    ELSE IF AnyIn(FaqKeywords, lower) THEN "FAQ"
    ELSE "AMBIGUOUS"

\* the keyword tests with RATES tried before TRACKING
classify_RatesFirst(message) ==
    LET lower == Lower(Text(message)) IN
    IF AnyIn(RatesKeywords, lower) THEN "RATES"
    ELSE IF AnyIn(TrackingKeywords, lower) THEN "TRACKING"
    ELSE IF AnyIn(LocationsKeywords, lower) THEN "LOCATIONS"
    ELSE IF AnyIn(FaqKeywords, lower) THEN "FAQ"
    ELSE "GENERAL"

\* SMSAAIAssistantIntentClassifier.classify
classify(message) ==
    LET lower == Lower(Text(message)) IN
    IF AnyIn(TrackingKeywords, lower) THEN "TRACKING"
    ELSE IF AnyIn(RatesKeywords, lower) THEN "RATES"
    ELSE IF AnyIn(LocationsKeywords, lower) THEN "LOCATIONS"
    ELSE IF AnyIn(FaqKeywords, lower) THEN "FAQ"
    ELSE "GENERAL"

\* What the text-generation backend can answer to the classification prompt:
\* a transport failure, a reply that is not JSON, or a JSON object whose
\* "intent" and "confidence" keys are optional.
BackendReplies ==
    { [kind |-> "error"], [kind |-> "garbage"], [kind |-> "json"],
      [kind |-> "json", intent |-> "TRACKING", confidence |-> 9],
      [kind |-> "json", intent |-> "FAQ", confidence |-> 12],
      [kind |-> "json", intent |-> "GENERAL", confidence |-> 6],
      [kind |-> "json", intent |-> "AMBIGUOUS", confidence |-> 4],
      [kind |-> "json", intent |-> "WEATHER", confidence |-> 9] }

\* SMSAAIAssistantLLMClient.classify_intent: the dict it returns; raised is
\* set when the backend call fails with an error the method does not catch
llm_classify_intent(reply) ==
    IF reply.kind = "error" THEN [raised |-> TRUE]
    ELSE IF reply.kind = "garbage"
    THEN [raised |-> FALSE, intent |-> "GENERAL", confidence |-> 0]
    ELSE [raised |-> FALSE, intent |-> Get(reply, "intent", "GENERAL"),
          confidence |-> Get(reply, "confidence", 5)]

\* SMSAAIAssistantIntentClassifier.classify_async with use_llm_for_ambiguous=True;
\* reply is the backend's answer, read only when the keywords give GENERAL
classify_async(message, reply) ==
    LET intent == classify(message) IN
    IF intent = "GENERAL"
    THEN LET res == llm_classify_intent(reply) IN
         IF res.raised THEN << "GENERAL", 2 >>
         ELSE IF res.intent \in Intents THEN << res.intent, res.confidence >>
         ELSE << "GENERAL", 3 >>
    ELSE << intent, 8 >>

\* a regular expression that does not match (re.search returned None)
NoMatch == << NONE >>

IsDigit(c) == c \in { "0", "1", "2", "3", "4", "5", "6", "7", "8", "9" }

\* last index of the maximal digit run that starts at i
RunEnd(s, i) ==
    CHOOSE e \in i..Len(s) :
        /\ \A j \in i..e : IsDigit(s[j])
        /\ e = Len(s) \/ ~IsDigit(s[e + 1])

\* first index at or after i that holds no whitespace (Len(s) + 1 if none)
SkipSpace(s, i) ==
    CHOOSE e \in i..(Len(s) + 1) :
        /\ \A j \in i..(e - 1) : s[j] = " "
        /\ e = Len(s) + 1 \/ s[e] # " "

StartsAt(s, i, k) == i + Len(k) - 1 <= Len(s) /\ \A j \in 1..Len(k) : s[i + j - 1] = k[j]

\* re.search(r"(\d+(?:\.\d+)?)\s*(?:kg|kilograms?|kgs)?", s).group(1), or NoMatch
WeightMatch(s) ==
    LET starts == { i \in 1..Len(s) : IsDigit(s[i]) } IN
    IF starts = {} THEN NoMatch
    ELSE LET i == CHOOSE a \in starts : \A b \in starts : a <= b
             e == RunEnd(s, i)
             frac == e + 2 <= Len(s) /\ s[e + 1] = "." /\ IsDigit(s[e + 2])
         IN  SubSeq(s, i, IF frac THEN RunEnd(s, e + 2) ELSE e)

\* re.search(r"(\d+)\s*(?:piece|pieces|pcs|pc)", s).group(1), or NoMatch
PiecesMatch(s) ==
    LET ok(i) == /\ IsDigit(s[i])
                 /\ LET w == SkipSpace(s, RunEnd(s, i) + 1) IN
                    \/ StartsAt(s, w, <<"p","i","e","c","e">>)
                    \/ StartsAt(s, w, <<"p","c">>)
        starts == { i \in 1..Len(s) : ok(i) }
    IN  IF starts = {} THEN NoMatch
        ELSE LET i == CHOOSE a \in starts : \A b \in starts : a <= b
             IN  SubSeq(s, i, RunEnd(s, i))

\* saudi_cities of extract_parameters, in the order of the list
SaudiCities ==
    <<
       [chars |-> <<"r","i","y","a","d","h">>, title |-> <<"R","i","y","a","d","h">>],
       [chars |-> <<"j","e","d","d","a","h">>, title |-> <<"J","e","d","d","a","h">>],
       [chars |-> <<"d","a","m","m","a","m">>, title |-> <<"D","a","m","m","a","m">>],
       [chars |-> <<"k","h","o","b","a","r">>, title |-> <<"K","h","o","b","a","r">>],
       [chars |-> <<"m","a","k","k","a","h">>, title |-> <<"M","a","k","k","a","h">>],
       [chars |-> <<"m","a","d","i","n","a","h">>, title |-> <<"M","a","d","i","n","a","h">>],
       [chars |-> <<"t","a","i","f">>, title |-> <<"T","a","i","f">>],
       [chars |-> <<"a","b","h","a">>, title |-> <<"A","b","h","a">>],
       [chars |-> <<"j","a","z","a","n">>, title |-> <<"J","a","z","a","n">>],
       [chars |-> <<"h","a","i","l">>, title |-> <<"H","a","i","l">>],
       [chars |-> <<"b","u","r","a","i","d","a","h">>, title |-> <<"B","u","r","a","i","d","a","h">>],
       [chars |-> <<"t","a","b","u","k">>, title |-> <<"T","a","b","u","k">>],
       [chars |-> <<"n","a","j","r","a","n">>, title |-> <<"N","a","j","r","a","n">>],
       [chars |-> <<"a","l"," ","j","o","u","f">>, title |-> <<"A","l"," ","J","o","u","f">>],
       [chars |-> <<"a","r","a","r">>, title |-> <<"A","r","a","r">>],
       [chars |-> <<"s","a","k","a","k","a">>, title |-> <<"S","a","k","a","k","a">>]
    >>

\* SMSAAIAssistantIntentClassifier.extract_parameters
extract_parameters(message) ==
    LET lower == Lower(Text(message))
        weight == WeightMatch(lower)
        pieces == PiecesMatch(lower)
        found == SelectSeq(SaudiCities, LAMBDA c : Contains(lower, c.chars))
        p1 == IF weight # NoMatch THEN Put(EmptyDict, "weight", weight) ELSE EmptyDict
        p2 == IF pieces # NoMatch THEN Put(p1, "pieces", pieces) ELSE p1
    IN  IF Len(found) >= 2
        THEN Put(Put(p2, "origin_city", found[1].title), "destination_city", found[2].title)
        ELSE IF Len(found) = 1
        THEN Put(p2, "destination_city", found[1].title)
        ELSE p2

(***************************************************************************)
(* Storage: the MongoDB collections behind SMSAAIAssistantDatabaseManager  *)
(* (services/db.py) and the OBS context documents behind                   *)
(* SMSAAIAssistantStorageClient (services/storage.py).                     *)
(***************************************************************************)
HistoryLimit == 10      \* limit=10 passed by _assemble_context_node

\* Python None where a dict is expected
NoneDict == [none |-> TRUE]

\* bool(d) for an optional dict: None and {} are falsy
DictTruthy(d) == d # NoneDict /\ DOMAIN d # {}

ConversationIds == { "default", "c1" }

\* outcomes a storage call can have under each behaviour of the backends
CallOutcomes(mode) ==
    IF mode = "up" THEN { TRUE } ELSE IF mode = "down" THEN { FALSE } ELSE BOOLEAN

\* the documents of one conversation, in collection order
OfConversation(msgs, cid) == SelectSeq(msgs, LAMBDA d : d.conversation_id = cid)

\* cursor.sort("timestamp", 1): stable insertion sort on the timestamp
RECURSIVE SortByTimestamp(_)
SortByTimestamp(docs) ==
    IF Len(docs) <= 1 THEN docs
    ELSE LET rest == SortByTimestamp(SubSeq(docs, 1, Len(docs) - 1))
             d == docs[Len(docs)]
             before == SelectSeq(rest, LAMBDA x : x.timestamp <= d.timestamp)
             after == SelectSeq(rest, LAMBDA x : x.timestamp > d.timestamp)
         IN  before \o << d >> \o after

\* cursor.limit(n)
Limit(docs, n) == SubSeq(docs, 1, IF Len(docs) < n THEN Len(docs) ELSE n)

\* SMSAAIAssistantDatabaseManager.get_conversation_history: the find succeeds
\* (ok) or raises
get_conversation_history(msgs, cid, limit, ok) ==
    IF ~ok THEN [raised |-> TRUE, value |-> << >>]
    ELSE LET cursor == Limit(SortByTimestamp(OfConversation(msgs, cid)), limit) IN
         [raised |-> FALSE,
          value |-> [i \in 1..Len(cursor) |->
                        [role |-> cursor[i].role, content |-> cursor[i].content,
                         timestamp |-> cursor[i].timestamp,
                         metadata |-> cursor[i].metadata]]]

\* a save that replaces the conversation's newest message instead of
\* inserting a new one (an upsert in place of insert_one)
save_message_Overwrite(db, cid, role, content, metadata, okInsert, okUpdate) ==
    LET message == [conversation_id |-> cid, role |-> role, content |-> content,
                    timestamp |-> db.clock + 1, metadata |-> metadata]
        n == Len(db.messages)
        stored == IF n > 0 /\ db.messages[n].conversation_id = cid
                  THEN [db.messages EXCEPT ![n] = message]
                  ELSE Append(db.messages, message)
    IN  IF ~okInsert THEN [raised |-> TRUE, db |-> db]
        ELSE [raised |-> ~okUpdate,
              db |-> [db EXCEPT !.messages = stored, !.clock = @ + 1]]

\* SMSAAIAssistantDatabaseManager.save_message on db = [messages, conversations,
\* clock]: insert_one into messages, then update_one on the conversation's
\* updated_at; each of the two calls succeeds or raises
save_message(db, cid, role, content, metadata, okInsert, okUpdate) ==
    LET message == [conversation_id |-> cid, role |-> role, content |-> content,
                    timestamp |-> db.clock + 1, metadata |-> metadata]
        touched == [i \in 1..Len(db.conversations) |->
                       IF /\ db.conversations[i].conversation_id = cid
                          /\ \A j \in 1..(i - 1) : db.conversations[j].conversation_id # cid
                       THEN [db.conversations[i] EXCEPT !.updated_at = db.clock + 1]
                       ELSE db.conversations[i]]
    IN  IF ~okInsert THEN [raised |-> TRUE, db |-> db]
        ELSE IF ~okUpdate
        THEN [raised |-> TRUE,
              db |-> [db EXCEPT !.messages = Append(@, message), !.clock = @ + 1]]
        ELSE [raised |-> FALSE,
              db |-> [messages |-> Append(db.messages, message),
                      conversations |-> touched, clock |-> db.clock + 1]]

\* SMSAAIAssistantDatabaseManager.ensure_conversation_exists: get_conversation
\* (find_one), then create_conversation (insert_one) when nothing was found;
\* every failure is swallowed, so the method never raises
ensure_conversation_exists(db, cid, user_id, metadata, okFind, okInsert) ==
    LET existing == \E i \in 1..Len(db.conversations) :
                        db.conversations[i].conversation_id = cid
        conversation == [conversation_id |-> cid, user_id |-> user_id,
                         created_at |-> db.clock + 1, updated_at |-> db.clock + 1,
                         status |-> "active", metadata |-> metadata]
    IN  IF ~okFind THEN [value |-> FALSE, db |-> db]
        ELSE IF existing THEN [value |-> TRUE, db |-> db]
        ELSE IF ~okInsert THEN [value |-> FALSE, db |-> db]
        ELSE [value |-> TRUE,
              db |-> [db EXCEPT !.conversations = Append(@, conversation),
                                !.clock = @ + 1]]

\* SMSAAIAssistantStorageClient.get_conversation_context: the stored document
\* (NoneDict when there is none); on a failure the method returns None, or
\* raises when the OBS client itself cannot be built
get_conversation_context(docs, cid, outcome) ==
    IF outcome = "raise" THEN [raised |-> TRUE, value |-> NoneDict]
    ELSE IF outcome = "none" THEN [raised |-> FALSE, value |-> NoneDict]
    ELSE [raised |-> FALSE, value |-> docs[cid]]

ObsOutcomes(mode) ==
    IF mode = "up" THEN { "ok" }
    ELSE IF mode = "down" THEN { "none", "raise" }
    ELSE { "ok", "none", "raise" }

(***************************************************************************)
(* Requests and the turn state (orchestrator/state.py).                    *)
(***************************************************************************)
Agents == { "tracking", "rates", "retail", "faq" }

Requests ==
    [ message : Messages,
      conversation_id : ConversationIds,
      user_id : { NONE, "u1" },
      selected_agent : { NONE, "other" } \cup Agents,
      explicit_intent : { NONE, "RATES", "FAQ" },
      file_id : { NONE, "f1", "f2" },
      file_url : { NONE } ]

\* SMSAAIAssistantOrchestratorState(**initial_state): the request fields, and
\* the defaults of every other field
FreshState(req) ==
    [ message |-> req.message,
      conversation_id |-> req.conversation_id,
      user_id |-> req.user_id,
      selected_agent |-> req.selected_agent,
      explicit_intent |-> req.explicit_intent,
      file_id |-> req.file_id,
      file_url |-> req.file_url,
      intent |-> NONE,
      intent_confidence |-> 0,
      parameters |-> EmptyDict,
      conversation_history |-> << >>,
      file_context |-> EmptyDict,
      semantic_context |-> EmptyDict,
      agent_name |-> NONE,
      agent_response |-> NoneDict,
      content |-> "",
      metadata |-> EmptyDict ]

\* the backend was not asked to classify
NoReply == [kind |-> "notcalled"]

(***************************************************************************)
(* classify_intent node (graph.py, _classify_intent_node).                 *)
(***************************************************************************)
\* agent_to_intent.get(selected_agent, Intent.GENERAL)
agent_to_intent(agent) ==
    CASE agent = "tracking" -> "TRACKING"
      [] agent = "rates"    -> "RATES"
      [] agent = "retail"   -> "LOCATIONS"
      [] agent = "faq"      -> "FAQ"
      [] OTHER              -> "GENERAL"

\* the node with its first two branches exchanged: explicit_intent is looked
\* at before selected_agent
classify_intent_node_IntentFirst(st, reply) ==
    IF Truthy(st.explicit_intent)
    THEN [consulted |-> FALSE,
          update |-> [intent |-> st.explicit_intent, intent_confidence |-> 10]]
    ELSE IF Truthy(st.selected_agent)
    THEN [consulted |-> FALSE,
          update |-> [intent |-> agent_to_intent(st.selected_agent),
                      intent_confidence |-> 10]]
    ELSE LET c == classify_async(st.message, reply) IN
         [consulted |-> TRUE,
          update |-> [intent |-> c[1], intent_confidence |-> c[2],
                      parameters |-> extract_parameters(st.message)]]

\* the update the node returns, with whether it called the classifier
classify_intent_node(st, reply) ==
    IF Truthy(st.selected_agent)
    THEN [consulted |-> FALSE,
          update |-> [intent |-> agent_to_intent(st.selected_agent),
                      intent_confidence |-> 10]]
    ELSE IF Truthy(st.explicit_intent)
    THEN [consulted |-> FALSE,
          update |-> [intent |-> st.explicit_intent, intent_confidence |-> 10]]
    ELSE LET c == classify_async(st.message, reply) IN
         [consulted |-> TRUE,
          update |-> [intent |-> c[1], intent_confidence |-> c[2],
                      parameters |-> extract_parameters(st.message)]]

\* the state with a node's update applied
Updated(st, update) ==
    [f \in DOMAIN st |-> IF f \in DOMAIN update THEN update[f] ELSE st[f]]

\* the backend is asked only when no override is given and no keyword matches
RepliesFor(st) ==
    IF /\ ~Truthy(st.selected_agent)
       /\ ~Truthy(st.explicit_intent)
       /\ classify(st.message) = "GENERAL"
    THEN BackendReplies
    ELSE { NoReply }

(***************************************************************************)
(* assemble_context node (graph.py, _assemble_context_node).               *)
(***************************************************************************)
\* the guard without the comparison with "default"
Persisting_NoSentinel(cid) == Truthy(cid)

\* the conversation id asks for persistence
Persisting(cid) == Truthy(cid) /\ cid # "default"

\* a storage call as the turn's call record keeps it
Call(name, ok) == [call |-> name, ok |-> ok]

\* the node without the try/except around the history fetch: a failure of
\* get_conversation_history leaves the node as an exception
assemble_context_node_Unguarded(st, msgs, docs, obsOutcome, okFind) ==
    LET loaded == get_conversation_context(docs, st.conversation_id, obsOutcome)
        file_context ==
            IF /\ Truthy(st.file_id) /\ st.intent = "TRACKING"
               /\ ~loaded.raised
               /\ DictTruthy(loaded.value)
               /\ "files" \in DOMAIN loaded.value
            THEN Get(loaded.value.files, st.file_id, EmptyDict)
            ELSE EmptyDict
        history == get_conversation_history(msgs, st.conversation_id, HistoryLimit, okFind)
    IN  [raised |-> Persisting(st.conversation_id) /\ history.raised,
         update |-> [conversation_history |->
                         IF Persisting(st.conversation_id) /\ ~history.raised
                         THEN history.value ELSE << >>,
                     file_context |-> file_context,
                     semantic_context |-> EmptyDict],
         calls |->
            (IF Truthy(st.file_id) /\ st.intent = "TRACKING"
             THEN << Call("get_conversation_context", ~loaded.raised) >> ELSE << >>)
            \o (IF Persisting(st.conversation_id)
                THEN << Call("get_conversation_history", ~history.raised) >>
                ELSE << >>)]

\* the update the node returns, whether it raised, and the storage calls it
\* issued; obsOutcome and okFind are the outcomes of the one OBS call and the
\* one MongoDB call the node can make.  Both calls sit in try/except blocks
\* that catch Exception, so the node does not raise.
assemble_context_node(st, msgs, docs, obsOutcome, okFind) ==
    LET loaded == get_conversation_context(docs, st.conversation_id, obsOutcome)
        file_context ==
            IF /\ Truthy(st.file_id) /\ st.intent = "TRACKING"
               /\ ~loaded.raised
               /\ DictTruthy(loaded.value)
               /\ "files" \in DOMAIN loaded.value
            THEN Get(loaded.value.files, st.file_id, EmptyDict)
            ELSE EmptyDict
        history == get_conversation_history(msgs, st.conversation_id, HistoryLimit, okFind)
        conversation_history ==
            IF Persisting(st.conversation_id) /\ ~history.raised
            THEN history.value
            ELSE << >>
    IN  [raised |-> FALSE,
         update |-> [conversation_history |-> conversation_history,
                     file_context |-> file_context,
                     semantic_context |-> EmptyDict],
         calls |->
            (IF Truthy(st.file_id) /\ st.intent = "TRACKING"
             THEN << Call("get_conversation_context", ~loaded.raised) >> ELSE << >>)
            \o (IF Persisting(st.conversation_id)
                THEN << Call("get_conversation_history", ~history.raised) >>
                ELSE << >>)]

(***************************************************************************)
(* route_to_agent node (graph.py, _route_to_agent_node).                   *)
(***************************************************************************)
\* bool(v) for an extracted value: None and "" are falsy
SeqTruthy(v) == v # NoMatch /\ v # << >>

\* d.get(k) is truthy
HasTruthy(d, k) == k \in DOMAIN d /\ SeqTruthy(d[k])

\* parameters enriched with the data extracted from the uploaded file
merge_file_parameters(parameters, file_context) ==
    LET extracted == IF DictTruthy(file_context)
                     THEN Get(file_context, "extracted_data", EmptyDict)
                     ELSE EmptyDict
        p1 == Put(parameters, "awb", extracted["awb"])
        p2 == IF HasTruthy(extracted, "origin")
              THEN Put(p1, "origin_city", extracted["origin"]) ELSE p1
        p3 == IF HasTruthy(extracted, "destination")
              THEN Put(p2, "destination_city", extracted["destination"]) ELSE p2
        p4 == IF HasTruthy(extracted, "weight")
              THEN Put(p3, "weight", extracted["weight"]) ELSE p3
        p5 == IF HasTruthy(extracted, "pieces")
              THEN Put(p4, "pieces", extracted["pieces"]) ELSE p4
    IN  IF DictTruthy(extracted) /\ HasTruthy(extracted, "awb") THEN p5 ELSE parameters

\* the if/elif chain without its FAQ branch
RouteTarget_NoFaq(intent) ==
    CASE intent = "TRACKING"  -> "tracking"
      [] intent = "RATES"     -> "rates"
      [] intent = "LOCATIONS" -> "retail"
      [] OTHER                -> "system"

\* the agent the if/elif chain selects for an intent ("system": none)
RouteTarget(intent) ==
    CASE intent = "TRACKING"  -> "tracking"
      [] intent = "RATES"     -> "rates"
      [] intent = "LOCATIONS" -> "retail"
      [] intent = "FAQ"       -> "faq"
      [] OTHER                -> "system"

\* the name attribute of the agent class behind each dispatch target
AgentSelfName(target) == IF target = "retail" THEN "retail_centers" ELSE target

SystemMessage ==
    "I can help with tracking, rates, service centers, and FAQs. Please select an agent or specify what you need."

\* What an agent's run(context) can do: raise, or return a dict.  The agents
\* are opaque to the workflow (run returns Dict[str, Any]): the results cover
\* a plain reply, a reply with metadata and top-level extras, a null content,
\* a missing content and a missing agent key.
HandlerOutcomes(target) ==
    LET name == AgentSelfName(target) IN
    { [raised |-> TRUE, value |-> NoneDict] } \cup
    { [raised |-> FALSE, value |-> v] : v \in
        { [agent |-> name, content |-> "reply"],
          [agent |-> name, content |-> "reply", metadata |-> [model |-> "m"],
           type |-> "error", results |-> "r"],
          [agent |-> name, content |-> NONE],
          [agent |-> name],
          [content |-> ""] } }

\* no handler is called
NoOutcome == [raised |-> FALSE, value |-> NoneDict]

OutcomesFor(intent) ==
    IF RouteTarget(intent) = "system" THEN { NoOutcome }
    ELSE HandlerOutcomes(RouteTarget(intent))

\* the node: the context it builds, the handlers it calls, and the update it
\* returns unless the handler raised
route_to_agent_node(st, outcome) ==
    LET parameters == merge_file_parameters(st.parameters, st.file_context)
        ctx == [conversation_id |-> st.conversation_id,
                user_id |-> st.user_id,
                message |-> st.message,
                intent |-> st.intent,
                parameters |-> parameters,
                conversation_history |-> st.conversation_history,
                file_context |-> st.file_context,
                semantic_context |-> st.semantic_context]
        target == RouteTarget(st.intent)
    IN  IF target = "system"
        THEN [raised |-> FALSE, invoked |-> << >>, context |-> ctx,
              update |-> [agent_name |-> "system",
                          agent_response |-> [agent |-> "system",
                                              content |-> SystemMessage]]]
        ELSE [raised |-> outcome.raised, invoked |-> << target >>, context |-> ctx,
              update |-> [agent_name |-> target, agent_response |-> outcome.value]]

(***************************************************************************)
(* aggregate_response node (graph.py, _aggregate_response_node).           *)
(***************************************************************************)
\* {**a, **b}
Merge(a, b) ==
    [k \in (DOMAIN a) \cup (DOMAIN b) |-> IF k \in DOMAIN b THEN b[k] ELSE a[k]]

\* top-level keys of the agent response that are copied into the metadata
Whitelist ==
    { "type", "raw_data", "events", "current_status", "status_explanation",
      "requires_awb", "centers", "location_info", "city", "needs_clarification" }

aggregate_content(st) ==
    IF DictTruthy(st.agent_response) THEN Get(st.agent_response, "content", "") ELSE ""

\* the metadata when every top-level key of the agent response is copied
aggregate_metadata_PassAll(st) ==
    IF DictTruthy(st.agent_response)
    THEN LET r == st.agent_response
             base == Merge([agent |-> Get(r, "agent", st.agent_name)],
                           Get(r, "metadata", EmptyDict))
             passed == [k \in DOMAIN r \ { "agent", "content", "metadata" } |-> r[k]]
         IN  Merge(base, passed)
    ELSE EmptyDict

aggregate_metadata(st) ==
    IF DictTruthy(st.agent_response)
    THEN LET r == st.agent_response
             base == Merge([agent |-> Get(r, "agent", st.agent_name)],
                           Get(r, "metadata", EmptyDict))
             passed == [k \in Whitelist \cap DOMAIN r |-> r[k]]
         IN  Merge(base, passed)
    ELSE EmptyDict

\* the persistence block with one try/except around both saves: a failure of
\* the user save skips the assistant save
persist_turn_SharedTry(db, st, content, metadata, o) ==
    LET cid == st.conversation_id
        user_id == IF Truthy(st.user_id) THEN st.user_id ELSE "anonymous"
        intent == IF Truthy(st.intent) THEN st.intent ELSE NONE
        ensured == ensure_conversation_exists(db, cid, user_id,
                       [intent |-> intent, selected_agent |-> st.selected_agent],
                       o[1], o[2])
        user == save_message(ensured.db, cid, "user", st.message,
                    [intent |-> intent, intent_confidence |-> st.intent_confidence,
                     selected_agent |-> st.selected_agent],
                    o[3], o[4])
        assistant == save_message(user.db, cid, "assistant", content,
                         [agent |-> Get(metadata, "agent", st.agent_name),
                          intent |-> intent],
                         o[5], o[6])
    IN  IF ~Persisting(cid)
        THEN [raised |-> FALSE, db |-> db, calls |-> << >>]
        ELSE IF user.raised
        THEN [raised |-> FALSE, db |-> user.db,
              calls |-> << Call("ensure_conversation_exists", ensured.value),
                           Call("save_message:user", FALSE) >>]
        ELSE [raised |-> FALSE, db |-> assistant.db,
              calls |-> << Call("ensure_conversation_exists", ensured.value),
                           Call("save_message:user", TRUE),
                           Call("save_message:assistant", ~assistant.raised) >>]

\* the persistence block: ensure the conversation, save the user message,
\* save the assistant message, each in a try/except of its own; o[1]..o[6]
\* are the outcomes of the six database calls it can make.  Gives the
\* database afterwards, the storage calls issued, in order, and whether an
\* exception left the block.
persist_turn(db, st, content, metadata, o) ==
    LET cid == st.conversation_id
        user_id == IF Truthy(st.user_id) THEN st.user_id ELSE "anonymous"
        intent == IF Truthy(st.intent) THEN st.intent ELSE NONE
        ensured == ensure_conversation_exists(db, cid, user_id,
                       [intent |-> intent, selected_agent |-> st.selected_agent],
                       o[1], o[2])
        user == save_message(ensured.db, cid, "user", st.message,
                    [intent |-> intent, intent_confidence |-> st.intent_confidence,
                     selected_agent |-> st.selected_agent],
                    o[3], o[4])
        assistant == save_message(user.db, cid, "assistant", content,
                         [agent |-> Get(metadata, "agent", st.agent_name),
                          intent |-> intent],
                         o[5], o[6])
    IN  IF Persisting(cid)
        THEN [raised |-> FALSE, db |-> assistant.db,
              calls |-> << Call("ensure_conversation_exists", ensured.value),
                           Call("save_message:user", ~user.raised),
                           Call("save_message:assistant", ~assistant.raised) >>]
        ELSE [raised |-> FALSE, db |-> db, calls |-> << >>]

\* the node: the update it returns, the database it leaves, and whether it
\* raised
aggregate_response_node(st, db, o) ==
    LET content == aggregate_content(st)
        metadata == aggregate_metadata(st)
        saved == persist_turn(db, st, content, metadata, o)
    IN  [raised |-> saved.raised,
         update |-> [content |-> content, metadata |-> metadata],
         db |-> saved.db, calls |-> saved.calls]

(***************************************************************************)
(* The legacy router (router.py, AIOrchestrator.handle), which main.py's   *)
(* /orchestrator/chat endpoint calls through route_message.                *)
(***************************************************************************)
RouterSystemMessage ==
    "I can help with tracking, rates, service centers, and FAQs. Please specify what you need."

\* handle(context): the intent it resolves, whether it called the keyword
\* classifier, the context it hands to the agent, and what it returns
handle(st, outcome) ==
    LET explicit == st.explicit_intent \in Intents
        intent == IF explicit THEN st.explicit_intent ELSE classify(st.message)
        ctx == [conversation_id |-> st.conversation_id,
                user_id |-> st.user_id,
                message |-> st.message,
                explicit_intent |-> st.explicit_intent,
                selected_agent |-> st.selected_agent,
                file_id |-> st.file_id,
                file_url |-> st.file_url,
                intent |-> intent,
                parameters |-> extract_parameters(st.message)]
        target == RouteTarget(intent)
    IN  [intent |-> intent, consulted |-> ~explicit, context |-> ctx,
         invoked |-> IF target = "system" THEN << >> ELSE << target >>,
         raised |-> target # "system" /\ outcome.raised,
         value |-> IF target = "system"
                   THEN [agent |-> "system", content |-> RouterSystemMessage]
                   ELSE outcome.value]

(***************************************************************************)
(* The SSE stream of the chat endpoint (main.py, _stream_tracking_response; *)
(* models/tracking.py).  The pydantic models validate their fields when    *)
(* they are constructed and raise when a field does not fit its type.      *)
(***************************************************************************)
\* the Literal type of TrackingSseMetadata.agent
SseAgents == { "tracking", "rates", "retail", "faq", "system" }

\* TrackingSseMetadata(agent=..., conversationId=...)
TrackingSseMetadata(agent, conversation_id) ==
    IF agent \in SseAgents
    THEN [raised |-> FALSE,
          value |-> [agent |-> agent, conversationId |-> conversation_id]]
    ELSE [raised |-> TRUE]

\* TrackingSseEvent(type=..., content=..., metadata=...); content: str
TrackingSseEvent(type, content, metadata) ==
    IF content = NONE
    THEN [raised |-> TRUE]
    ELSE [raised |-> FALSE,
          value |-> [type |-> type, content |-> content, metadata |-> metadata]]

\* the metadata built from route_message's result
sse_metadata(res, conversation_id) ==
    TrackingSseMetadata(Get(res, "agent", "tracking"), conversation_id)

\* the token event carrying the whole content
token_event(res, conversation_id) ==
    LET metadata == sse_metadata(res, conversation_id) IN
    IF metadata.raised THEN [raised |-> TRUE]
    ELSE TrackingSseEvent("token", Get(res, "content", ""), metadata.value)

\* the done event
done_event(res, conversation_id) ==
    TrackingSseEvent("done", "", sse_metadata(res, conversation_id).value)

(***************************************************************************)
(* The cities the rates agent works with (agents/rates.py,                 *)
(* _extract_rate_params): the parameters of the context first, the cities  *)
(* of the message in the order of their position only for what is missing. *)
(***************************************************************************)
\* str.find: the 0-based index of the first occurrence of k in s, -1 if none
Find(s, k) ==
    IF Contains(s, k)
    THEN CHOOSE i \in 0..(Len(s) - Len(k)) :
            /\ \A j \in 1..Len(k) : s[i + j] = k[j]
            /\ \A h \in 0..(i - 1) : \E j \in 1..Len(k) : s[h + j] # k[j]
    ELSE -1

\* the titles of the vocabulary cities found in s, sorted by their index
ordered_city_names(s) ==
    LET found == { n \in 1..Len(SaudiCities) : Find(s, SaudiCities[n].chars) # -1 }
        Before(n) == { m \in found :
                         \/ Find(s, SaudiCities[m].chars) < Find(s, SaudiCities[n].chars)
                         \/ /\ Find(s, SaudiCities[m].chars) = Find(s, SaudiCities[n].chars)
                            /\ m < n }
    IN  [i \in 1..Cardinality(found) |->
            SaudiCities[CHOOSE n \in found : Cardinality(Before(n)) = i - 1].title]

\* origin_city and destination_city of _extract_rate_params (NoMatch: None)
rate_cities(message, parameters) ==
    LET names == ordered_city_names(Lower(Text(message)))
        origin == Get(parameters, "origin_city", NoMatch)
        destination == Get(parameters, "destination_city", NoMatch)
    IN  [origin_city |->
            IF origin = NoMatch /\ Len(names) >= 1 THEN names[1] ELSE origin,
         destination_city |->
            IF destination = NoMatch /\ Len(names) >= 2 THEN names[2] ELSE destination]

(***************************************************************************)
(* The handlers (agents/rates.py, agents/tracking.py, agents/faq.py).      *)
(* The text a handler returns is a sequence of pieces: fixed sentences,    *)
(* values and the pieces of the backend's reply; concatenation is \o.      *)
(* The backend's replies are drawn from plain text without the reasoning   *)
(* phrases the sentence filters look for, with and without <think> spans.  *)
(***************************************************************************)
\* the raw texts the text-generation backend answers with
BackendTexts ==
    { << >>,
      << "Hello!", " How can I help?" >>,
      << "<think>", "plan", "</think>", "Hello!" >>,
      << "Hello!", "<THINK>", "plan", "</THINK>" >> }

\* str.lower() on a piece of text
LowerPiece(t) ==
    CASE t = "<THINK>"  -> "<think>"
      [] t = "</THINK>" -> "</think>"
      [] OTHER          -> t

LowerPieces(s) == [i \in 1..Len(s) |-> LowerPiece(s[i])]

\* 1-based position of the first piece t in s, 0 when there is none
FindPiece(s, t) ==
    IF \E i \in 1..Len(s) : s[i] = t
    THEN CHOOSE i \in 1..Len(s) : s[i] = t /\ \A j \in 1..(i - 1) : s[j] # t
    ELSE 0

\* _filter_thinking_content(content) with self._inside_thinking = flag: the
\* text it returns and the flag it leaves
filter_thinking_content(content, flag) ==
    IF content = << >> THEN [content |-> content, inside |-> flag]
    ELSE LET open == FindPiece(LowerPieces(content), "<think>")
             flag1 == flag \/ open # 0
             c1 == IF open # 0 THEN SubSeq(content, 1, open - 1) ELSE content
             close == FindPiece(LowerPieces(c1), "</think>")
         IN  IF flag1
             THEN IF close # 0
                  THEN [content |-> SubSeq(c1, close + 1, Len(c1)), inside |-> FALSE]
                  ELSE [content |-> << >>, inside |-> TRUE]
             ELSE [content |-> c1, inside |-> FALSE]

\* re.sub(r'<think>.*?</think>', '', text) followed by re.sub(r'</?think>', '',
\* text), both case-insensitive: the spans, then the tags left alone
RECURSIVE RemoveSpans(_)
RemoveSpans(s) ==
    LET low == LowerPieces(s)
        open == FindPiece(low, "<think>")
        rest == SubSeq(s, open + 1, Len(s))
        close == FindPiece(LowerPieces(rest), "</think>")
    IN  IF open = 0 \/ close = 0 THEN s
        ELSE SubSeq(s, 1, open - 1) \o RemoveSpans(SubSeq(rest, close + 1, Len(rest)))

\* SMSAAIAssistantLLMClient._clean_reasoning_content
clean_reasoning_content(text) ==
    SelectSeq(RemoveSpans(text),
              LAMBDA t : LowerPiece(t) \notin { "<think>", "</think>" })

\* what chat_completion returns for a raw reply: the cleaned content
chat_completion(backend) ==
    IF backend.available
    THEN [raised |-> FALSE, content |-> clean_reasoning_content(backend.text)]
    ELSE [raised |-> TRUE]

\* what chat_completion_stream yields for a raw reply: its chunks, or it
\* raises (the backend is down, or the client has no such method)
chat_completion_stream(backend) ==
    IF backend.available /\ backend.streaming
    THEN [raised |-> FALSE, chunks |-> backend.chunks]
    ELSE [raised |-> TRUE]

\* the ways a reply is cut into chunks: piece by piece, or in one chunk
Chunkings(text) ==
    { [i \in 1..Len(text) |-> << text[i] >>] } \cup
    (IF text = << >> THEN { } ELSE { << text >> })

\* the text-generation backend during one handler call
Backends ==
    { [available |-> FALSE, streaming |-> FALSE, text |-> << >>, chunks |-> << >>] } \cup
    UNION { { [available |-> TRUE, streaming |-> s, text |-> t, chunks |-> c] :
                s \in BOOLEAN, c \in Chunkings(t) } : t \in BackendTexts }

\* keywords of _is_rate_query
RateQueryKeywords ==
    << <<"r","a","t","e">>, <<"p","r","i","c","e">>, <<"c","o","s","t">>,
       <<"s","h","i","p","p","i","n","g">>, <<"s","h","i","p">>,
       <<"d","e","l","i","v","e","r","y">>, <<"c","h","a","r","g","e","s">> >>

\* SMSAAIAssistantRatesAgent._is_rate_query
is_rate_query(message) == AnyIn(RateQueryKeywords, Lower(Text(message)))

\* re.search(r"(\d+(\.\d+)?)\s*(kg|kilo|kilogram)s?", s).group(1), or NoMatch
RatesWeightMatch(s) ==
    LET unit(i) == \/ StartsAt(s, SkipSpace(s, i), <<"k","g">>)
                   \/ StartsAt(s, SkipSpace(s, i), <<"k","i","l","o">>)
        frac(e) == e + 2 <= Len(s) /\ s[e + 1] = "." /\ IsDigit(s[e + 2])
        last(i) == LET e == RunEnd(s, i) IN
                   IF frac(e) /\ unit(RunEnd(s, e + 2) + 1) THEN RunEnd(s, e + 2)
                   ELSE IF unit(e + 1) THEN e
                   ELSE 0
        starts == { i \in 1..Len(s) : IsDigit(s[i]) /\ last(i) # 0 }
    IN  IF starts = { } THEN NoMatch
        ELSE LET i == CHOOSE a \in starts : \A b \in starts : a <= b
             IN  SubSeq(s, i, last(i))

\* the extracted parameters with the list of the required ones that are None
with_missing_fields(p) ==
    p @@ [missing_fields |->
            (IF p.origin_city = NoMatch THEN << "origin_city" >> ELSE << >>)
            \o (IF p.destination_city = NoMatch THEN << "destination_city" >> ELSE << >>)
            \o (IF p.weight = NoMatch THEN << "weight" >> ELSE << >>)]

\* SMSAAIAssistantRatesAgent._extract_rate_params
extract_rate_params(message, ctx) ==
    LET params == Get(ctx, "parameters", EmptyDict)
        lower == Lower(Text(message))
    IN
    with_missing_fields(
        rate_cities(message, params) @@
        [from_country |-> "SA", to_country |-> "SA",
         weight |-> IF Get(params, "weight", NoMatch) = NoMatch
                    THEN RatesWeightMatch(lower)
                    ELSE params["weight"],
         pieces |-> IF HasTruthy(params, "pieces") THEN params["pieces"] ELSE << "1" >>,
         service_type |->
            IF Contains(lower, <<"d","l","v">>)
               \/ Contains(lower, <<"d","e","l","i","v","e","r","y">>) THEN "DLV"
            ELSE IF Contains(lower, <<"e","x","p">>) THEN "EXP"
            ELSE NONE])

\* what get_rate returns: options, an empty Data array, or a failure
RateApiResults ==
    { [success |-> TRUE, rates |-> << "SMSA Priority Parcels" >>],
      [success |-> TRUE, rates |-> << >>],
      [success |-> FALSE, rates |-> << >>, errorCode |-> "NETWORK_ERROR",
       errorMessage |-> "Failed to connect to SMSA rates API"] }

\* SMSAAIAssistantRatesAgent._format_rate_response
format_rate_response(res) ==
    IF ~res.success
    THEN << "I couldn't retrieve rates at the moment: ",
            Get(res, "errorMessage", "Unknown error"), ". Please try again later." >>
    ELSE IF res.rates = << >>
    THEN << "Currently no pricing is available for this shipment combination. You can try changing weight, city, or service type." >>
    ELSE << "Here are the available shipping rates:\n" >> \o res.rates

\* the labels of the missing fields, joined with ", "
missing_text(missing_fields) ==
    LET label(f) == CASE f = "origin_city" -> "origin city"
                      [] f = "destination_city" -> "destination city"
                      [] f = "weight" -> "weight (in kg)"
    IN  [i \in 1..(2 * Len(missing_fields) - 1) |->
            IF i % 2 = 1 THEN label(missing_fields[(i + 1) \div 2]) ELSE ", "]

\* the request the handler sends to the rates provider
get_rate_call(p) ==
    [api |-> "get_rate", origin_city |-> p.origin_city,
     destination_city |-> p.destination_city, weight |-> p.weight,
     pieces |-> p.pieces, service_type |-> p.service_type]

\* the chunk loop of a run_stream: each chunk goes through the stateful
\* filter, and what is left of it, if anything, is yielded
RECURSIVE filter_chunks(_, _)
filter_chunks(chunks, flag) ==
    IF chunks = << >> THEN [contents |-> << >>, inside |-> flag]
    ELSE LET f == filter_thinking_content(Head(chunks), flag)
             rest == filter_chunks(Tail(chunks), f.inside)
         IN  [contents |-> (IF f.content # << >> THEN << f.content >> ELSE << >>)
                            \o rest.contents,
              inside |-> rest.inside]

Token(content, metadata) == [type |-> "token", content |-> content, metadata |-> metadata]

Tokens(contents, metadata) == [i \in 1..Len(contents) |-> Token(contents[i], metadata)]

RatesFallbackRun ==
    << "Hi, I can help you with SMSA shipping rates inside Saudi Arabia. Please share the origin city, destination city, and weight in kilograms for your shipment (for example: 'Rate for 1 kg from Riyadh to Jeddah')." >>

RatesFallbackStream ==
    << "Hi, I can help you with SMSA shipping rates inside Saudi Arabia. Please tell me the origin city, destination city, and weight in kilograms for your shipment (for example: 'Rate for 1 kg from Riyadh to Jeddah')." >>

RatesPromptRun(missing_fields) ==
    << "To get accurate shipping rates, I need some more details. ",
       "Please provide the following: " >> \o missing_text(missing_fields)
    \o << ". ", "For example: 'Rate for 5 kg from Riyadh to Jeddah'." >>

RatesPromptStream(missing_fields) ==
    << "To get accurate shipping rates, I need a bit more information. ",
       "Please provide the following: " >> \o missing_text(missing_fields)
    \o << ". ", "For example: 'Rate for 5 kg from Riyadh to Jeddah'." >>

\* run calling the provider whatever fields are missing
rates_run_NoPrompt(ctx, backend, api) ==
    LET p == extract_rate_params(ctx.message, ctx)
        llm == chat_completion(backend)
    IN  [value |-> [agent |-> "rates",
                    content |-> IF llm.raised \/ llm.content = << >>
                                THEN format_rate_response(api) ELSE llm.content,
                    results |-> api],
         calls |-> << get_rate_call(p) >>]

\* SMSAAIAssistantRatesAgent.run: the dict it returns and the provider
\* requests it sends
rates_run(ctx, backend, api) ==
    LET p == extract_rate_params(ctx.message, ctx)
        llm == chat_completion(backend)
    IN  IF ~is_rate_query(ctx.message)
        THEN [value |-> [agent |-> "rates",
                         content |-> IF llm.raised \/ llm.content = << >>
                                     THEN RatesFallbackRun ELSE llm.content,
                         results |-> [success |-> FALSE,
                                      errorCode |-> "CONVERSATIONAL_ONLY"]],
              calls |-> << >>]
        ELSE IF p.missing_fields # << >>
        THEN [value |-> [agent |-> "rates",
                         content |-> RatesPromptRun(p.missing_fields),
                         results |-> [success |-> FALSE,
                                      errorCode |-> "MISSING_PARAMETERS"]],
              calls |-> << >>]
        ELSE [value |-> [agent |-> "rates",
                         content |-> IF llm.raised \/ llm.content = << >>
                                     THEN format_rate_response(api) ELSE llm.content,
                         results |-> api],
              calls |-> << get_rate_call(p) >>]

\* SMSAAIAssistantRatesAgent.run_stream: the fragments it yields, the
\* provider requests it sends and the flag it leaves
rates_run_stream(ctx, backend, api) ==
    LET p == extract_rate_params(ctx.message, ctx)
        llm == chat_completion_stream(backend)
        loop == filter_chunks(llm.chunks, FALSE)
    IN  IF ~is_rate_query(ctx.message)
        THEN LET md == [agent |-> "rates", type |-> "conversational"] IN
             IF llm.raised
             THEN [fragments |-> << Token(RatesFallbackStream, md) >>,
                   calls |-> << >>, inside |-> FALSE]
             ELSE [fragments |-> Tokens(loop.contents, md),
                   calls |-> << >>, inside |-> loop.inside]
        ELSE IF p.missing_fields # << >>
        THEN [fragments |-> << Token(RatesPromptStream(p.missing_fields),
                                     [agent |-> "rates",
                                      requires_parameters |-> p.missing_fields]) >>,
              calls |-> << >>, inside |-> FALSE]
        ELSE LET md == [agent |-> "rates", results |-> api] IN
             IF llm.raised
             THEN [fragments |-> << Token(format_rate_response(api), md) >>,
                   calls |-> << get_rate_call(p) >>, inside |-> FALSE]
             ELSE [fragments |-> Tokens(loop.contents, md),
                   calls |-> << get_rate_call(p) >>, inside |-> loop.inside]

\* \w of the regular expressions, on the characters the messages use
IsWordChar(c) == c \notin { " ", ".", ",", "!", "?", ":", "-", "'" }

\* the AWB numbers as text
AwbString(chars) ==
    IF chars = <<"1","2","3","4","5","6","7","8","9","0">> THEN "1234567890"
    ELSE "awb"

\* SMSAAIAssistantTrackingAgent._extract_awbs: the matches of \b\d{10,15}\b.
\* The messages hold one number at most, so the order of the list is fixed.
extract_awbs(s) ==
    LET starts == { i \in 1..Len(s) :
                      /\ IsDigit(s[i])
                      /\ i = 1 \/ ~IsWordChar(s[i - 1])
                      /\ RunEnd(s, i) - i + 1 \in 10..15
                      /\ RunEnd(s, i) = Len(s) \/ ~IsWordChar(s[RunEnd(s, i) + 1]) }
    IN  IF starts = { } THEN << >>
        ELSE LET i == CHOOSE a \in starts : \A b \in starts : a <= b
             IN  << SubSeq(s, i, RunEnd(s, i)) >>

\* the AWB numbers of a turn: the message, then the file context, then the
\* parameters
collect_awbs(ctx) ==
    LET a0 == extract_awbs(Text(ctx.message))
        file_context == Get(ctx, "file_context", EmptyDict)
        extracted == IF DictTruthy(file_context)
                     THEN Get(file_context, "extracted_data", EmptyDict)
                     ELSE EmptyDict
        In(a, v) == \E i \in 1..Len(a) : a[i] = v
        a1 == IF DictTruthy(extracted) /\ HasTruthy(extracted, "awb")
                 /\ ~In(a0, extracted["awb"])
              THEN Append(a0, extracted["awb"]) ELSE a0
        parameters == Get(ctx, "parameters", EmptyDict)
    IN  IF HasTruthy(parameters, "awb") /\ ~In(a1, parameters["awb"])
        THEN Append(a1, parameters["awb"]) ELSE a1

\* what track_bulk does: a result per AWB (an EXCEPTION result when the
\* provider cannot be reached), or an error that leaves it
TrackOutcomes ==
    { [raised |-> TRUE],
      [raised |-> FALSE, status |-> "DELIVERED"],
      [raised |-> FALSE, status |-> "EXCEPTION"] }

\* the TrackingResult of each AWB
track_results(awbs, track) ==
    [i \in 1..Len(awbs) |-> [awb |-> AwbString(awbs[i]), status |-> track.status]]

\* "\n".join(self._format_result_line(r) for r in results)
format_result_lines(results) ==
    [i \in 1..(3 * Len(results)) |->
        CASE i % 3 = 1 -> "AWB "
          [] i % 3 = 2 -> results[(i + 1) \div 3].awb
          [] OTHER     -> ": " \o results[i \div 3].status \o " (location: N/A)\n"]

\* the phrases _clean_reasoning_text deletes
ReasoningPhrases ==
    { "Check if the VAT is calculated correctly.", "For SPOP:", "For SSB:",
      "That's correct.", "Finally,", "Also,", "I should also mention",
      "Make sure the response is concise", "Avoid any markdown",
      "Alright, that should cover" }

\* _clean_reasoning_text
clean_reasoning_text(text) == SelectSeq(text, LAMBDA t : t \notin ReasoningPhrases)

TrackingPromptRun ==
    << "I'd be happy to help you track your shipment! Please provide your AWB (tracking) number, and I'll get the latest status for you." >>

TrackingPromptStream ==
    << "Hello! I'm here to help you track your SMSA shipments. Could you please provide your AWB (tracking) number?" >>

TrackingErrorMessage(awbs) ==
    << "I encountered an issue while tracking AWB ", AwbString(awbs[1]),
       ". Please try again in a moment, or contact SMSA Express customer support for assistance." >>

\* SMSAAIAssistantTrackingAgent.run
tracking_run(ctx, backend, track) ==
    LET awbs == collect_awbs(ctx)
        llm == chat_completion(backend)
        said == IF llm.raised THEN << >> ELSE clean_reasoning_text(llm.content)
        request == [api |-> "track_bulk", awbs |-> awbs]
        results == track_results(awbs, track)
    IN  IF awbs = << >>
        THEN [value |-> [agent |-> "tracking",
                         content |-> IF said = << >> THEN TrackingPromptRun ELSE said,
                         results |-> << >>,
                         type |-> "conversational",
                         requires_awb |-> TRUE],
              calls |-> << >>]
        ELSE IF track.raised
        THEN [value |-> [agent |-> "tracking",
                         content |-> IF llm.raised \/ llm.content = << >>
                                     THEN TrackingErrorMessage(awbs)
                                     ELSE said,
                         results |-> << >>,
                         type |-> "error"],
              calls |-> << request >>]
        ELSE [value |-> [agent |-> "tracking",
                         content |-> IF said = << >> THEN format_result_lines(results)
                                     ELSE said,
                         results |-> results,
                         type |-> "tracking_result"],
              calls |-> << request >>]

\* SMSAAIAssistantTrackingAgent.run_stream
tracking_run_stream(ctx, backend, track) ==
    LET awbs == collect_awbs(ctx)
        llm == chat_completion_stream(backend)
        loop == filter_chunks(llm.chunks, FALSE)
        request == [api |-> "track_bulk", awbs |-> awbs]
        results == track_results(awbs, track)
    IN  IF awbs = << >>
        THEN LET md == [agent |-> "tracking", type |-> "conversational",
                        requires_awb |-> TRUE] IN
             IF llm.raised
             THEN [fragments |-> << Token(TrackingPromptStream, md) >>,
                   calls |-> << >>, inside |-> FALSE]
             ELSE [fragments |-> Tokens(loop.contents, md),
                   calls |-> << >>, inside |-> loop.inside]
        ELSE IF track.raised
        THEN [fragments |-> << Token(TrackingErrorMessage(awbs),
                                     [agent |-> "tracking", type |-> "error"]) >>,
              calls |-> << request >>, inside |-> FALSE]
        ELSE LET md == [agent |-> "tracking", type |-> "tracking_result"] IN
             IF llm.raised
             THEN [fragments |-> << Token(format_result_lines(results), md) >>,
                   calls |-> << request >>, inside |-> FALSE]
             ELSE [fragments |-> Tokens(loop.contents, md),
                   calls |-> << request >>, inside |-> loop.inside]

\* message.strip() is empty
IsBlank(message) == \A i \in 1..Len(Text(message)) : Text(message)[i] = " "

FaqPrompt == << "Please ask me a question about SMSA services, policies, or shipping." >>

FaqApology ==
    << "I apologize, but I couldn't generate a response. Please try rephrasing your question." >>

FaqError ==
    << "I encountered an error while processing your question. Please try again or contact SMSA support for assistance." >>

\* SMSAAIAssistantFAQAgent.run; the text-generation backend is the provider
\* this handler asks
faq_run(ctx, backend, api) ==
    LET llm == chat_completion(backend)
        said == IF llm.raised THEN << >> ELSE clean_reasoning_text(llm.content)
    IN  IF IsBlank(ctx.message)
        THEN [value |-> [agent |-> "faq", content |-> FaqPrompt], calls |-> << >>]
        ELSE [value |-> [agent |-> "faq",
                         content |-> IF llm.raised THEN FaqError
                                     ELSE IF said = << >> THEN FaqApology ELSE said],
              calls |-> << [api |-> "chat_completion"] >>]

\* SMSAAIAssistantFAQAgent.run_stream
faq_run_stream(ctx, backend, api) ==
    LET llm == chat_completion_stream(backend)
        loop == filter_chunks(llm.chunks, FALSE)
        md == [agent |-> "faq"]
    IN  IF IsBlank(ctx.message)
        THEN [fragments |-> << Token(FaqPrompt, md) >>, calls |-> << >>,
              inside |-> FALSE]
        ELSE IF llm.raised
        THEN [fragments |-> << Token(FaqError, md) >>,
              calls |-> << [api |-> "chat_completion_stream"] >>, inside |-> FALSE]
        ELSE [fragments |-> Tokens(loop.contents, md),
              calls |-> << [api |-> "chat_completion_stream"] >>,
              inside |-> loop.inside]

\* the metadata main.py's upload_file stores for an image it processed
UploadedFile ==
    [object_key |-> "f1", url |-> "https://obs/f1", content_type |-> "image/png",
     size |-> 1,
     extracted_data |-> [awb |-> <<"1","2","3","4","5","6","7","8","9","0">>,
                         weight |-> <<"7">>]]

\* the metadata of an image in which no AWB number was found, only a weight
UploadedFileNoAwb ==
    [object_key |-> "f2", url |-> "https://obs/f2", content_type |-> "image/png",
     size |-> 1,
     extracted_data |-> [awb |-> NoMatch, weight |-> <<"7">>]]

\* the messages given to a handler directly
HandlerMessages ==
    { "", " ", "hello", "track 5kg", "track 1234567890",
      "rate 5kg Jeddah to Riyadh", "rate 5kg to Riyadh", "rate Jeddah to Riyadh" }

\* the contexts _route_to_agent_node builds for them: the parameters are the
\* classifier's, or empty after an explicit selection, merged with the data
\* of an uploaded file
HandlerContexts ==
    UNION { { [message |-> m, parameters |-> merge_file_parameters(p, f),
               file_context |-> f] :
                p \in { EmptyDict, extract_parameters(m) },
                f \in { EmptyDict, UploadedFile, UploadedFileNoAwb } } :
            m \in HandlerMessages }

\* the handlers whose run and run_stream are modelled
Handlers == { "tracking", "rates", "faq" }

\* what the handler's provider answers during the call
ProviderOutcomes(agent) ==
    CASE agent = "rates"    -> RateApiResults
      [] agent = "tracking" -> TrackOutcomes
      [] OTHER              -> { NoneDict }

run(agent, ctx, backend, api) ==
    CASE agent = "rates"    -> rates_run(ctx, backend, api)
      [] agent = "tracking" -> tracking_run(ctx, backend, api)
      [] agent = "faq"      -> faq_run(ctx, backend, api)

run_stream(agent, ctx, backend, api) ==
    CASE agent = "rates"    -> rates_run_stream(ctx, backend, api)
      [] agent = "tracking" -> tracking_run_stream(ctx, backend, api)
      [] agent = "faq"      -> faq_run_stream(ctx, backend, api)

(***************************************************************************)
(* Initial states: empty collections, or a conversation "c1" that earlier  *)
(* turns ("hello", answered by the system message) already filled beyond   *)
(* the history limit; an OBS context document with one uploaded file.      *)
(***************************************************************************)
NoState == [none |-> TRUE]

PreloadSizes == { 0, HistoryLimit + 2 * MaxExtra }

PreloadedMessage(i) ==
    IF i % 2 = 1
    THEN [conversation_id |-> "c1", role |-> "user", content |-> "hello",
          timestamp |-> i,
          metadata |-> [intent |-> "GENERAL", intent_confidence |-> 6,
                        selected_agent |-> NONE]]
    ELSE [conversation_id |-> "c1", role |-> "assistant", content |-> SystemMessage,
          timestamp |-> i,
          metadata |-> [agent |-> "system", intent |-> "GENERAL"]]

PreloadedConversation(n) ==
    [conversation_id |-> "c1", user_id |-> "anonymous", created_at |-> 0,
     updated_at |-> n, status |-> "active",
     metadata |-> [intent |-> "GENERAL", selected_agent |-> NONE]]

\* conversation "c1" has a context document holding files "f1" and "f2"; the
\* other conversation has none
ObsDocument(cid) ==
    IF cid = "c1"
    THEN [files |-> [f1 |-> UploadedFile, f2 |-> UploadedFileNoAwb]]
    ELSE NoneDict

\* no direct handler call is in progress
HandlerIdle ==
    /\ hpc = "idle"
    /\ call = NoneDict
    /\ ran = NoneDict
    /\ fragments = << >>
    /\ apiCalls = << >>
    /\ inside = FALSE

\* no stream has started
StreamsIdle ==
    streams = [s \in { "A", "B" } |->
                  [pc |-> "idle", chunks |-> << >>, pos |-> 1, out |-> << >>]]

\* the two requests the upload endpoint serves at the same time
UploadRequests == { "A", "B" }

\* upload_file's locals before the request arrives
NoUpload ==
    [pc |-> "idle", file |-> NoneDict, conversation_id |-> NONE, object_key |-> NONE,
     extracted_data |-> NoneDict, existing_context |-> NoneDict, stored |-> FALSE,
     response |-> NoneDict]

\* the callers of ensure_conversation_exists
EnsureCallers == { "A", "B", "C" }

\* no handler call, stream, upload or ensure_conversation_exists call has
\* started, and the bucket holds no uploaded object
AuxIdle ==
    /\ HandlerIdle
    /\ StreamsIdle
    /\ uploads = [u \in UploadRequests |-> NoUpload]
    /\ bucket = { }
    /\ ensures = [e \in EnsureCallers |->
                     [pc |-> "idle", conversation_id |-> NONE, value |-> NONE]]

Init ==
    /\ pc = "idle"
    /\ entry = "graph"
    /\ state = NoState
    /\ result = NoneDict
    /\ \E n \in PreloadSizes :
          /\ messages = [i \in 1..n |-> PreloadedMessage(i)]
          /\ conversations = IF n = 0 THEN << >> ELSE << PreloadedConversation(n) >>
          /\ clock = n
    /\ obs = [c \in ConversationIds |-> ObsDocument(c)]
    /\ dbMode \in { "up", "down", "flaky" }
    /\ turns = 0
    /\ consulted = FALSE
    /\ llmReply = NoReply
    /\ invoked = << >>
    /\ handlerRaised = FALSE
    /\ context = NoneDict
    /\ stages = << >>
    /\ dbCalls = << >>
    /\ log = << >>
    /\ events = << >>
    /\ AuxIdle

(***************************************************************************)
(* Actions.                                                                *)
(***************************************************************************)
\* a request arrives on one of the entry paths and a fresh turn state is built
Receive(requests, entries, limit) ==
    /\ UNCHANGED aux
    /\ pc \in { "idle", "done", "raised" }
    /\ turns < limit
    /\ \E req \in requests, e \in entries :
          /\ state' = FreshState(req)
          /\ entry' = e
          /\ pc' = IF e = "graph" THEN "classify_intent" ELSE "route_message"
    /\ result' = NoneDict
    /\ turns' = turns + 1
    /\ consulted' = FALSE
    /\ llmReply' = NoReply
    /\ invoked' = << >>
    /\ handlerRaised' = FALSE
    /\ context' = NoneDict
    /\ stages' = << >>
    /\ dbCalls' = << >>
    /\ events' = << >>
    /\ UNCHANGED << messages, conversations, obs, clock, dbMode, log >>

ClassifyIntent ==
    /\ UNCHANGED aux
    /\ pc = "classify_intent"
    /\ \E reply \in RepliesFor(state) :
          LET node == classify_intent_node(state, reply) IN
          /\ state' = Updated(state, node.update)
          /\ consulted' = node.consulted
          /\ llmReply' = reply
    /\ stages' = Append(stages, "classify_intent")
    /\ pc' = "assemble_context"
    /\ UNCHANGED << entry, result, messages, conversations, obs, clock, dbMode, turns,
                    invoked, handlerRaised, context, dbCalls, log, events >>

AssembleContext ==
    /\ UNCHANGED aux
    /\ pc = "assemble_context"
    /\ \E obsOutcome \in ObsOutcomes(dbMode), okFind \in CallOutcomes(dbMode) :
          LET node == assemble_context_node(state, messages, obs, obsOutcome, okFind) IN
          /\ dbCalls' = dbCalls \o node.calls
          /\ IF node.raised
             THEN /\ pc' = "raised"
                  /\ UNCHANGED << state, stages >>
             ELSE /\ pc' = "route_to_agent"
                  /\ state' = Updated(state, node.update)
                  /\ stages' = Append(stages, "assemble_context")
    /\ UNCHANGED << entry, result, messages, conversations, obs, clock, dbMode, turns,
                    consulted, llmReply, invoked, handlerRaised, context, log, events >>

RouteToAgent ==
    /\ UNCHANGED aux
    /\ pc = "route_to_agent"
    /\ \E outcome \in OutcomesFor(state.intent) :
          LET node == route_to_agent_node(state, outcome) IN
          /\ invoked' = invoked \o node.invoked
          /\ context' = node.context
          /\ handlerRaised' = node.raised
          /\ IF node.raised
             THEN /\ pc' = "raised"
                  /\ UNCHANGED << state, stages >>
             ELSE /\ pc' = "aggregate_response"
                  /\ state' = Updated(state, node.update)
                  /\ stages' = Append(stages, "route_to_agent")
    /\ UNCHANGED << entry, result, messages, conversations, obs, clock, dbMode, turns,
                    consulted, llmReply, dbCalls, log, events >>

AggregateResponse ==
    /\ UNCHANGED aux
    /\ pc = "aggregate_response"
    /\ \E o \in [1..6 -> CallOutcomes(dbMode)] :
          LET node == aggregate_response_node(
                          state,
                          [messages |-> messages, conversations |-> conversations,
                           clock |-> clock],
                          o)
          IN  /\ messages' = node.db.messages
              /\ conversations' = node.db.conversations
              /\ clock' = node.db.clock
              /\ dbCalls' = dbCalls \o node.calls
              /\ IF node.raised
                 THEN /\ pc' = "raised"
                      /\ UNCHANGED << state, result, stages, log >>
                 ELSE /\ pc' = "done"
                      /\ state' = Updated(state, node.update)
                      /\ result' = Updated(state, node.update)
                      /\ stages' = Append(stages, "aggregate_response")
                      /\ log' = Append(log, [conversation_id |-> state.conversation_id,
                                             message |-> state.message,
                                             content |-> node.update.content,
                                             intent |-> state.intent,
                                             consulted |-> consulted,
                                             asked |-> llmReply # NoReply])
    /\ UNCHANGED << entry, obs, dbMode, turns, consulted, llmReply, invoked,
                    handlerRaised, context, events >>

\* _stream_tracking_response up to its first yield: route_message(context),
\* the SSE metadata and the token event
RouteMessage ==
    /\ UNCHANGED aux
    /\ pc = "route_message"
    /\ \E outcome \in OutcomesFor(handle(state, NoOutcome).intent) :
          LET h == handle(state, outcome)
              token == token_event(h.value, state.conversation_id)
          IN
          /\ state' = Updated(state, [intent |-> h.intent,
                                      parameters |-> h.context.parameters])
          /\ consulted' = h.consulted
          /\ invoked' = invoked \o h.invoked
          /\ context' = h.context
          /\ handlerRaised' = h.raised
          /\ IF h.raised
             THEN pc' = "raised" /\ UNCHANGED << result, events >>
             ELSE /\ result' = h.value
                  /\ IF token.raised
                     THEN pc' = "raised" /\ UNCHANGED events
                     ELSE pc' = "stream_done" /\ events' = Append(events, token.value)
    /\ UNCHANGED << entry, messages, conversations, obs, clock, dbMode, turns,
                    llmReply, stages, dbCalls, log >>

\* _stream_tracking_response resumed after the token event: the done event
StreamDone ==
    /\ UNCHANGED aux
    /\ pc = "stream_done"
    /\ events' = Append(events, done_event(result, state.conversation_id).value)
    /\ pc' = "done"
    /\ UNCHANGED << entry, state, result, messages, conversations, obs, clock, dbMode,
                    turns, consulted, llmReply, invoked, handlerRaised, context, stages,
                    dbCalls, log >>

\* one turn, on either entry path, over the whole request space
Next ==
    \/ Receive(Requests, { "graph", "router" }, 1)
    \/ ClassifyIntent
    \/ AssembleContext
    \/ RouteToAgent
    \/ AggregateResponse
    \/ RouteMessage
    \/ StreamDone

Spec == Init /\ [][Next]_vars

(***************************************************************************)
(* Several turns of the workflow in a row, over a narrow request space.    *)
(***************************************************************************)
FewRequests ==
    [ message : { "hello", "Track my rate" },
      conversation_id : ConversationIds,
      user_id : { NONE },
      selected_agent : { NONE, "faq" },
      explicit_intent : { NONE },
      file_id : { NONE },
      file_url : { NONE } ]

InitTurns == Init /\ dbMode \in { "up", "down" }

NextTurns ==
    \/ Receive(FewRequests, { "graph" }, MaxTurns)
    \/ ClassifyIntent
    \/ AssembleContext
    \/ RouteToAgent
    \/ AggregateResponse

SpecTurns == InitTurns /\ [][NextTurns]_vars

(***************************************************************************)
(* A handler called directly: run(context), then run_stream(context) on    *)
(* the same instance with the same context and the same backend answers.   *)
(***************************************************************************)
InitHandler == Init /\ dbMode = "up" /\ clock = 0

\* a context is handed to a handler; the backends' answers are fixed
HandlerCall ==
    /\ hpc = "idle"
    /\ \E agent \in Handlers, ctx \in HandlerContexts, backend \in Backends :
          \E api \in ProviderOutcomes(agent) :
             call' = [agent |-> agent, context |-> ctx, backend |-> backend, api |-> api]
    /\ hpc' = "called"
    /\ UNCHANGED << ran, fragments, apiCalls, inside, wfvars, svars, uvars, evars >>

\* await handler.run(context)
Run ==
    /\ hpc = "called"
    /\ \E r \in { run(call.agent, call.context, call.backend, call.api) } :
          /\ ran' = r.value
          /\ apiCalls' = [i \in 1..Len(r.calls) |-> [by |-> "run", request |-> r.calls[i]]]
    /\ hpc' = "ran"
    /\ UNCHANGED << call, fragments, inside, wfvars, svars, uvars, evars >>

\* async for fragment in handler.run_stream(context), to exhaustion
RunStream ==
    /\ hpc = "ran"
    /\ \E r \in { run_stream(call.agent, call.context, call.backend, call.api) } :
          /\ fragments' = r.fragments
          /\ inside' = r.inside
          /\ apiCalls' = apiCalls \o
                [i \in 1..Len(r.calls) |-> [by |-> "run_stream", request |-> r.calls[i]]]
    /\ hpc' = "done"
    /\ UNCHANGED << call, ran, wfvars, svars, uvars, evars >>

NextHandler ==
    \/ HandlerCall
    \/ Run
    \/ RunStream

SpecHandler == InitHandler /\ [][NextHandler]_vars

(***************************************************************************)
(* Two run_stream calls on the same handler instance.  The orchestrator    *)
(* builds each handler once and serves every request with it, and a stream *)
(* gives up control at every chunk it awaits, so the chunk loops of two    *)
(* requests interleave chunk by chunk.                                     *)
(***************************************************************************)
\* the chunk sequences the backend streams
ChunkLists == { b.chunks : b \in { x \in Backends : x.available /\ x.streaming } }

\* run_stream up to its first await: the flag is reset and the backend asked
StreamStart(s) ==
    /\ streams[s].pc = "idle"
    /\ \E chunks \in ChunkLists :
          streams' = [streams EXCEPT ![s] = [pc |-> "streaming", chunks |-> chunks,
                                             pos |-> 1, out |-> << >>]]
    /\ inside' = FALSE
    /\ UNCHANGED << hpc, call, ran, fragments, apiCalls, wfvars, uvars, evars >>

\* one turn of the chunk loop: the chunk is filtered and what is left yielded
StreamChunk(s) ==
    /\ streams[s].pc = "streaming"
    /\ streams[s].pos <= Len(streams[s].chunks)
    /\ LET f == filter_thinking_content(streams[s].chunks[streams[s].pos], inside) IN
          /\ inside' = f.inside
          /\ streams' = [streams EXCEPT
                            ![s].pos = @ + 1,
                            ![s].out = IF f.content # << >> THEN Append(@, f.content) ELSE @]
    /\ UNCHANGED << hpc, call, ran, fragments, apiCalls, wfvars, uvars, evars >>

\* the backend's stream is exhausted and run_stream returns
StreamEnd(s) ==
    /\ streams[s].pc = "streaming"
    /\ streams[s].pos > Len(streams[s].chunks)
    /\ streams' = [streams EXCEPT ![s].pc = "done"]
    /\ UNCHANGED << hpc, call, ran, fragments, apiCalls, inside, wfvars, uvars, evars >>

NextStreams ==
    \/ \E s \in { "A", "B" } : StreamStart(s)
    \/ \E s \in { "A", "B" } : StreamChunk(s)
    \/ \E s \in { "A", "B" } : StreamEnd(s)

SpecStreams == InitHandler /\ [][NextStreams]_vars

(***************************************************************************)
(* Properties.                                                             *)
(***************************************************************************)
\* a turn is in flight or over, and its intent has been resolved
Classified ==
    pc \in { "assemble_context", "route_to_agent", "aggregate_response", "done", "raised" }

\* the dispatch stage of the turn is over
Dispatched == pc \in { "aggregate_response", "done", "raised" }

\* C1: for every request that carries an explicit agent selection, on every
\* entry path, the intent is the one mapped to the agent, the confidence is
\* 1.0 and the keyword classifier is not consulted.
C1_ExplicitAgentDecides ==
    (Classified /\ state.selected_agent \in Agents) =>
        /\ state.intent =
              (CASE state.selected_agent = "tracking" -> "TRACKING"
                 [] state.selected_agent = "rates"    -> "RATES"
                 [] state.selected_agent = "retail"   -> "LOCATIONS"
                 [] state.selected_agent = "faq"      -> "FAQ")
        /\ state.intent_confidence = 10
        /\ ~consulted

\* the backend's reply names a label of the Intent enum
LabelOk(reply) ==
    reply.kind = "json" /\ "intent" \in DOMAIN reply /\ reply.intent \in Intents

\* C2: on the workflow, the intent is decided by the explicit agent if there
\* is one, else by the explicit intent if there is one, else by
\* auto-classification (keywords, then the backend's label, GENERAL when
\* neither gives one); after CLASSIFY the intent is never null.
C2_IntentPriority ==
    (entry = "graph" /\ Classified) =>
        /\ state.intent # NONE
        /\ state.intent \in Intents
        /\ IF Truthy(state.selected_agent)
           THEN /\ ~consulted
                /\ state.selected_agent = "tracking" => state.intent = "TRACKING"
                /\ state.selected_agent = "rates" => state.intent = "RATES"
                /\ state.selected_agent = "retail" => state.intent = "LOCATIONS"
                /\ state.selected_agent = "faq" => state.intent = "FAQ"
                /\ state.selected_agent \notin Agents => state.intent = "GENERAL"
           ELSE IF Truthy(state.explicit_intent)
           THEN ~consulted /\ state.intent = state.explicit_intent
           ELSE /\ consulted
                /\ classify(state.message) # "GENERAL" =>
                      state.intent = classify(state.message)
                /\ (classify(state.message) = "GENERAL" /\ LabelOk(llmReply)) =>
                      state.intent = llmReply.intent
                /\ (classify(state.message) = "GENERAL" /\ ~LabelOk(llmReply)) =>
                      state.intent = "GENERAL"

\* C2 witness: both overrides are present and name different intents
C2_Witness ==
    /\ entry = "graph" /\ Classified
    /\ state.selected_agent = "tracking"
    /\ state.explicit_intent = "FAQ"
    /\ state.intent = "TRACKING"

\* C3: when the handler raises, the dispatch stage does not raise and gives a
\* result with a non-empty content that is marked as a system or error reply.
C3_HandlerFailureContained ==
    (entry = "graph" /\ handlerRaised) =>
        /\ pc \in { "aggregate_response", "done" }
        /\ DictTruthy(state.agent_response)
        /\ Get(state.agent_response, "content", "") \notin { "", NONE }
        /\ \/ Get(state.agent_response, "agent", NONE) = "system"
           \/ Get(state.agent_response, "type", NONE) = "error"

WorkflowStages ==
    << "classify_intent", "assemble_context", "route_to_agent", "aggregate_response" >>

\* C4: no exception escapes the workflow, whose stages run in the order
\* CLASSIFY, ASSEMBLE_CONTEXT, DISPATCH, AGGREGATE.
C4_NoFailureExit ==
    (entry = "graph" /\ pc # "idle") =>
        /\ pc # "raised"
        /\ stages = SubSeq(WorkflowStages, 1, Len(stages))
        /\ pc = "done" => stages = WorkflowStages

\* C5: dispatch calls at most one handler, the one mapped to the intent; for
\* GENERAL and every other intent without a handler it calls none, names
\* "system" as the handler and returns the fixed system message.
C5_AtMostOneMappedHandler ==
    (entry = "graph" /\ pc # "idle") =>
        /\ Len(invoked) <= 1
        /\ ~Dispatched => invoked = << >>
        /\ Dispatched =>
              IF state.intent \in { "TRACKING", "RATES", "LOCATIONS", "FAQ" }
              THEN LET expected == CASE state.intent = "TRACKING"  -> "tracking"
                                     [] state.intent = "RATES"     -> "rates"
                                     [] state.intent = "LOCATIONS" -> "retail"
                                     [] state.intent = "FAQ"       -> "faq"
                   IN  /\ invoked = << expected >>
                       /\ pc # "raised" => state.agent_name = expected
              ELSE /\ invoked = << >>
                   /\ pc # "raised"
                   /\ state.agent_name = "system"
                   /\ state.agent_response = [agent |-> "system", content |-> SystemMessage]

\* C5 witnesses: a turn whose intent has no handler went through dispatch
C5_Witness ==
    /\ entry = "graph" /\ pc = "done"
    /\ state.intent = "AMBIGUOUS"
    /\ state.agent_name = "system"

C7_AssembleSurvivesStorageOutage ==
    (/\ entry = "graph" /\ dbMode = "down"
     /\ pc \in { "route_to_agent", "aggregate_response", "done", "raised" }) =>
        /\ Len(stages) >= 2
        /\ stages[2] = "assemble_context"
        /\ state.conversation_history = << >>
        /\ state.file_context = EmptyDict

\* C7 witness: both storage calls of the stage were made and raised
C7_Witness ==
    /\ entry = "graph" /\ dbMode = "down" /\ pc = "route_to_agent"
    /\ dbCalls = << Call("get_conversation_context", FALSE),
                    Call("get_conversation_history", FALSE) >>

\* the last n elements of a sequence
LastN(seq, n) == IF Len(seq) <= n THEN seq ELSE SubSeq(seq, Len(seq) - n + 1, Len(seq))

\* C8: the history handed to the handler is the last 10 messages of the
\* conversation, oldest first.
C8_HistoryIsMostRecent ==
    (/\ entry = "graph" /\ pc = "aggregate_response" /\ invoked # << >>
     /\ Call("get_conversation_history", TRUE) \in { dbCalls[i] : i \in DOMAIN dbCalls }) =>
        LET recent == LastN(OfConversation(messages, state.conversation_id), HistoryLimit) IN
        /\ Len(context.conversation_history) = Len(recent)
        /\ \A i \in 1..Len(recent) :
              /\ context.conversation_history[i].timestamp = recent[i].timestamp
              /\ context.conversation_history[i].content = recent[i].content

\* every database call succeeds
AllSucceed == [i \in 1..6 |-> TRUE]

EmptyDb == [messages |-> << >>, conversations |-> << >>, clock |-> 0]

\* C9: a failure of ensure-conversation or of the user save does not prevent
\* the attempt to save the assistant message; no persistence failure raises
\* out of AGGREGATE; the content and metadata returned are those returned when
\* every save succeeds.
C9_PersistenceFaultTolerant ==
    entry = "graph" =>
        /\ pc = "raised" => handlerRaised
        /\ pc = "done" =>
              LET success == aggregate_response_node(state, EmptyDb, AllSucceed).update IN
              /\ Persisting(state.conversation_id) =>
                    \E i \in DOMAIN dbCalls : dbCalls[i].call = "save_message:assistant"
              /\ result.content = success.content
              /\ result.metadata = success.metadata

\* C9 witness: ensure-conversation and the user save failed, the assistant
\* save was made and succeeded
C9_Witness ==
    /\ entry = "graph" /\ pc = "done"
    /\ dbCalls = << Call("get_conversation_history", TRUE),
                    Call("ensure_conversation_exists", FALSE),
                    Call("save_message:user", FALSE),
                    Call("save_message:assistant", TRUE) >>

\* the completed turns that asked for persistence
PersistedTurns == SelectSeq(log, LAMBDA t : Persisting(t.conversation_id))

\* with a working storage, the collection is what it was at the start followed
\* by one user and one assistant message per completed persisting turn
TwoAppendsPerTurn ==
    dbMode = "up" =>
        LET base == Len(messages) - 2 * Len(PersistedTurns) IN
        /\ base \in PreloadSizes
        /\ \A i \in 1..base : messages[i] = PreloadedMessage(i)
        /\ \A k \in 1..Len(PersistedTurns) :
              LET user == messages[base + 2 * k - 1]
                  assistant == messages[base + 2 * k]
                  turn == PersistedTurns[k]
              IN  /\ user.role = "user"
                  /\ user.content = turn.message
                  /\ user.conversation_id = turn.conversation_id
                  /\ assistant.role = "assistant"
                  /\ assistant.content = turn.content
                  /\ assistant.conversation_id = turn.conversation_id

\* stored messages are neither changed nor removed
AppendOnly ==
    /\ Len(messages') >= Len(messages)
    /\ \A i \in 1..Len(messages) : messages'[i] = messages[i]

\* C10: under success conditions every completed run with a persisting
\* conversation id appends exactly two messages, the user message and then
\* the assistant message with the returned content, so k runs append 2k; and
\* stored messages are never changed or removed.
C10_TwoAppendsPerTurn == []TwoAppendsPerTurn /\ [][AppendOnly]_vars

\* C10 witness: the workflow ran twice on the same input and four messages
\* were appended
C10_Witness ==
    /\ dbMode = "up" /\ pc = "done"
    /\ Len(log) = 2 /\ log[1] = log[2]
    /\ Persisting(log[1].conversation_id)
    /\ Len(messages) - 4 \in PreloadSizes
    /\ messages[Len(messages)].content = messages[Len(messages) - 2].content

\* the calls that read or write a conversation's messages and its record
ConversationDataCalls ==
    { "get_conversation_history", "ensure_conversation_exists",
      "save_message:user", "save_message:assistant" }

\* C11 as stated: with the conversation id "default" a turn issues no storage
\* call at all.
C11_NoStorageCallAtAll ==
    (entry = "graph" /\ pc # "idle" /\ state.conversation_id = "default") =>
        dbCalls = << >>

\* C11, amended: with the conversation id "default" the history fetch is
\* skipped and the history is empty, neither ensure-conversation nor a message
\* append is issued, and the stored messages and conversations stay as they
\* were; the file-context fetch of a tracking turn with a file is still made.
C11_SentinelSkipsPersistence ==
    (entry = "graph" /\ pc # "idle" /\ state.conversation_id = "default") =>
        /\ \A i \in DOMAIN dbCalls : dbCalls[i].call \notin ConversationDataCalls
        /\ state.conversation_history = << >>
        /\ \E n \in PreloadSizes :
              /\ messages = [i \in 1..n |-> PreloadedMessage(i)]
              /\ conversations = IF n = 0 THEN << >> ELSE << PreloadedConversation(n) >>

\* C11 witness: a tracking turn with a file on the "default" conversation
\* completed
C11_Witness ==
    /\ entry = "graph" /\ pc = "done"
    /\ state.conversation_id = "default"
    /\ state.intent = "TRACKING" /\ Truthy(state.file_id)
    /\ Len(dbCalls) = 1 /\ dbCalls[1].call = "get_conversation_context"

\* the keys of the data extracted from a file and the parameters they become
FileKeys ==
    { << "awb", "awb" >>, << "origin", "origin_city" >>,
      << "destination", "destination_city" >>, << "weight", "weight" >>,
      << "pieces", "pieces" >> }

C13_MetadataNamesHandler ==
    (entry = "graph" /\ pc = "done") =>
        /\ "agent" \in DOMAIN result.metadata
        /\ result.metadata["agent"] = state.agent_name

\* C14: the keys of the aggregated metadata are agent, the keys of the
\* handler's metadata and the whitelisted top-level keys of the handler's
\* result; whitelisted keys keep their value, every other top-level key is
\* dropped.
C14_MetadataWhitelist ==
    (entry = "graph" /\ pc = "done") =>
        LET r == IF DictTruthy(state.agent_response) THEN state.agent_response
                 ELSE EmptyDict
            supplied == Get(r, "metadata", EmptyDict)
            listed == { "type", "raw_data", "events", "current_status",
                        "status_explanation", "requires_awb", "centers",
                        "location_info", "city", "needs_clarification" }
        IN  /\ DOMAIN result.metadata \subseteq
                  { "agent" } \cup DOMAIN supplied \cup (listed \cap DOMAIN r)
            /\ \A k \in listed \cap DOMAIN r :
                  k \in DOMAIN result.metadata /\ result.metadata[k] = r[k]
            /\ \A k \in DOMAIN r \ (listed \cup { "agent" } \cup DOMAIN supplied) :
                  k \notin DOMAIN result.metadata

\* C14 witness: a result with a listed key, an unlisted key and a metadata of
\* its own was aggregated
C14_Witness ==
    /\ entry = "graph" /\ pc = "done"
    /\ DictTruthy(state.agent_response)
    /\ { "results", "type", "metadata" } \subseteq DOMAIN state.agent_response
    /\ DOMAIN result.metadata = { "agent", "model", "type" }

\* the five labels the backend is asked to choose from
FiveIntents == { "TRACKING", "RATES", "LOCATIONS", "FAQ", "GENERAL" }

\* the backend failed, or its reply cannot be parsed, or it names a label
\* outside the five
BadReply(reply) ==
    \/ reply.kind \in { "error", "garbage" }
    \/ reply.kind = "json" /\ "intent" \in DOMAIN reply /\ reply.intent \notin FiveIntents

\* C15: when the keywords give GENERAL and the backend is asked, a label
\* outside the five intents, an unparseable reply and a backend failure all
\* give GENERAL with a confidence between 0.2 and 0.3, and classification
\* does not raise.
C15_InvalidLabelDegrades ==
    (entry = "graph" /\ Classified /\ BadReply(llmReply)) =>
        /\ state.intent = "GENERAL"
        /\ state.intent_confidence \in 2..3
        /\ Len(stages) >= 1 /\ stages[1] = "classify_intent"

\* C16: after classification the confidence lies in [0,1]; it is 1.0 for an
\* explicit override, 0.8 for a keyword match, the backend's value when the
\* backend confirmed a label, and at most 0.3 when the fallback failed.
C16_ConfidenceConvention ==
    (entry = "graph" /\ Classified) =>
        /\ state.intent_confidence \in 0..10
        /\ (Truthy(state.selected_agent) \/ Truthy(state.explicit_intent)) =>
              state.intent_confidence = 10
        /\ (~Truthy(state.selected_agent) /\ ~Truthy(state.explicit_intent)) =>
              /\ classify(state.message) # "GENERAL" => state.intent_confidence = 8
              /\ (llmReply.kind = "json" /\ { "intent", "confidence" } \subseteq DOMAIN llmReply
                    /\ llmReply.intent \in FiveIntents) =>
                    state.intent_confidence = llmReply.confidence
              /\ BadReply(llmReply) => state.intent_confidence <= 3

\* the keyword sets a message matches, lower-cased
Matches(message) ==
    LET lower == Lower(Text(message)) IN
    { k \in { "TRACKING", "RATES", "LOCATIONS", "FAQ" } :
        AnyIn(CASE k = "TRACKING"  -> TrackingKeywords
                [] k = "RATES"     -> RatesKeywords
                [] k = "LOCATIONS" -> LocationsKeywords
                [] k = "FAQ"       -> FaqKeywords, lower) }

\* the position of an intent in the priority order
Priority(k) ==
    CASE k = "TRACKING" -> 1 [] k = "RATES" -> 2 [] k = "LOCATIONS" -> 3 [] k = "FAQ" -> 4

\* the intent keyword classification gave in this turn: the turn's intent,
\* except that the workflow asks the backend when the keywords gave GENERAL
KeywordIntent == IF llmReply # NoReply THEN "GENERAL" ELSE state.intent

\* C17: keyword classification returns the matching keyword set that comes
\* first in the order TRACKING > RATES > LOCATIONS > FAQ, and GENERAL when no
\* set matches.
C17_KeywordPriority ==
    (Classified /\ consulted) =>
        LET matched == Matches(state.message) IN
        IF matched = { } THEN KeywordIntent = "GENERAL"
        ELSE /\ KeywordIntent \in matched
             /\ \A k \in matched : Priority(KeywordIntent) <= Priority(k)

\* C17 witness: a message with keywords of two sets was classified
C17_Witness ==
    /\ Classified /\ consulted
    /\ Matches(state.message) = { "LOCATIONS", "FAQ" }
    /\ state.intent = "LOCATIONS"

\* the intent keyword classification gave in a completed turn
LoggedKeywordIntent(t) == IF t.asked THEN "GENERAL" ELSE t.intent

PlaceNamesInTextOrder(message) ==
    LET lower == Lower(Text(message))
        At(i) == { n \in 1..Len(SaudiCities) :
                     /\ i + Len(SaudiCities[n].chars) <= Len(lower)
                     /\ \A j \in 1..Len(SaudiCities[n].chars) :
                           lower[i + j] = SaudiCities[n].chars[j]
                     /\ \A h \in 0..(i - 1) :
                           ~(/\ h + Len(SaudiCities[n].chars) <= Len(lower)
                             /\ \A j \in 1..Len(SaudiCities[n].chars) :
                                   lower[h + j] = SaudiCities[n].chars[j]) }
        starts == { i \in 0..Len(lower) : At(i) # { } }
    IN  [r \in 1..Cardinality(starts) |->
            LET i == CHOOSE i \in starts : Cardinality({ h \in starts : h < i }) = r - 1
            IN  SaudiCities[CHOOSE n \in At(i) : TRUE].title]

\* C19: for a message with two or more vocabulary place-names, the extracted
\* origin and destination are the first and the second place-name in the
\* order of the text, and this is the pair the rates handler uses.
C19_CitiesInTextOrder ==
    LET names == PlaceNamesInTextOrder(state.message) IN
    (entry = "graph" /\ Classified /\ Len(names) >= 2) =>
        /\ consulted =>
              /\ Get(state.parameters, "origin_city", NoMatch) = names[1]
              /\ Get(state.parameters, "destination_city", NoMatch) = names[2]
        /\ invoked = << "rates" >> =>
              rate_cities(context.message, context.parameters)
                  = [origin_city |-> names[1], destination_city |-> names[2]]

\* C20: the events of a request that was answered with a text (by a handler
\* or by the system message) are zero or more token events followed by exactly
\* one done event, which is the last event.
C20_StreamEndsWithDone ==
    (/\ entry = "router" /\ pc \in { "done", "raised" } /\ ~handlerRaised
     /\ Get(result, "content", "") # NONE) =>
        /\ Len(events) >= 1
        /\ events[Len(events)].type = "done"
        /\ \A i \in 1..(Len(events) - 1) : events[i].type = "token"

\* the text of a sequence of fragments: their contents, concatenated
RECURSIVE Joined(_)
Joined(frags) ==
    IF frags = << >> THEN << >> ELSE Head(frags).content \o Joined(Tail(frags))

\* C21: for every handler and context, with the same backend answers, the
\* contents of the fragments run_stream yields, concatenated, are the content
\* run returns; the prompts for missing parameters and the fallback sentences
\* included.
C21_StreamEqualsRun ==
    hpc = "done" => Joined(fragments) = ran.content

\* C22: in streaming mode the turn is persisted once the stream has completed:
\* the last message of the conversation is an assistant message, appended in
\* this turn, whose content is the concatenation of the streamed fragments.
C22_StreamedTurnPersisted ==
    (entry = "router" /\ pc = "done" /\ Persisting(state.conversation_id)
     /\ dbMode = "up") =>
        /\ \E i \in DOMAIN dbCalls : dbCalls[i].call = "save_message:assistant"
        /\ Len(messages) >= 1
        /\ messages[Len(messages)].role = "assistant"
        /\ messages[Len(messages)].conversation_id = state.conversation_id
        /\ messages[Len(messages)].content = events[1].content

\* C23: whatever the interleaving of two streams on the same handler
\* instance, each stream yields the fragments it yields when it runs alone:
\* the instance's flag neither suppresses the other stream's text nor lets
\* its thinking text through.
C23_StreamsDoNotInterfere ==
    \A s \in { "A", "B" } :
        streams[s].pc = "done" =>
            streams[s].out = filter_chunks(streams[s].chunks, FALSE).contents

\* the pieces of a text outside its <think>...</think> spans; a span left open
\* runs to the end of the text
RECURSIVE Visible(_, _)
Visible(text, open) ==
    IF text = << >> THEN << >>
    ELSE LET t == LowerPiece(Head(text)) IN
         IF open THEN Visible(Tail(text), t # "</think>")
         ELSE IF t = "<think>" THEN Visible(Tail(text), TRUE)
         ELSE << Head(text) >> \o Visible(Tail(text), FALSE)

\* a <think> of the text has no </think> after it
RECURSIVE OpenSpan(_, _)
OpenSpan(text, open) ==
    IF text = << >> THEN open
    ELSE LET t == LowerPiece(Head(text)) IN
         OpenSpan(Tail(text), IF open THEN t # "</think>" ELSE t = "<think>")

\* the chunks a stream has consumed, concatenated
RECURSIVE Flat(_)
Flat(chunks) == IF chunks = << >> THEN << >> ELSE Head(chunks) \o Flat(Tail(chunks))

\* C26: after a reset, whatever the chunks, the filter's outputs concatenated
\* are the inputs concatenated with exactly the <think>...</think> spans
\* removed, and the flag is true exactly when a <think> was opened and not
\* closed; a chunk with text before <think> and a chunk with both tags
\* included.
C26_FilterRemovesExactlySpans ==
    (streams["A"].pc # "idle" /\ streams["B"].pc = "idle") =>
        LET seen == Flat(SubSeq(streams["A"].chunks, 1, streams["A"].pos - 1)) IN
        /\ Flat(streams["A"].out) = Visible(seen, FALSE)
        /\ inside = OpenSpan(seen, FALSE)

\* the runs of 10 to 15 digits of a message, as text
DigitRuns(message) ==
    LET s == Text(message) IN
    { AwbString(SubSeq(s, i, RunEnd(s, i))) :
        i \in { j \in 1..Len(s) : IsDigit(s[j])
                                   /\ (j = 1 \/ ~IsDigit(s[j - 1]))
                                   /\ (RunEnd(s, j) - j + 1 \in 10..15) } }

\* C24: for every message that contains an AWB, the tracking handler's run
\* returns agent "tracking", a content that contains the digit string and a
\* non-empty results list, whatever the generation backend returns and
\* whether or not it is available (stated for the turns in which the tracking
\* provider gave a result for each AWB).
C24_TrackingReturnsAwb ==
    (hpc \in { "ran", "done" } /\ call.agent = "tracking" /\ ~call.api.raised) =>
        \A awb \in DigitRuns(call.context.message) :
            /\ ran.agent = "tracking"
            /\ \E i \in DOMAIN ran.content : ran.content[i] = awb
            /\ ran.results # << >>

\* the input a handler requires is absent from the turn: a non-blank message
\* for FAQ; an AWB number in the message, the file context or the parameters
\* for tracking; a non-blank message with an origin city, a destination city
\* and a weight, given as parameters or in the message, for rates
LacksRequiredInput(agent, ctx) ==
    LET lower == Lower(Text(ctx.message))
        names == PlaceNamesInTextOrder(ctx.message)
        extracted == Get(ctx.file_context, "extracted_data", EmptyDict)
    IN  CASE agent = "faq" -> IsBlank(ctx.message)
          [] agent = "tracking" ->
                /\ DigitRuns(ctx.message) = { }
                /\ ~HasTruthy(extracted, "awb")
                /\ ~HasTruthy(ctx.parameters, "awb")
          [] agent = "rates" ->
                \/ IsBlank(ctx.message)
                \/ ~HasTruthy(ctx.parameters, "origin_city") /\ Len(names) = 0
                \/ ~HasTruthy(ctx.parameters, "destination_city") /\ Len(names) < 2
                \/ ~HasTruthy(ctx.parameters, "weight") /\ ~Contains(lower, <<"k","g">>)

C30_SingleCityOneSlot ==
    (/\ hpc \in { "ran", "done" }
     /\ call.agent = "rates"
     /\ is_rate_query(call.context.message)
     /\ Len(PlaceNamesInTextOrder(call.context.message)) = 1
     /\ call.context.file_context = EmptyDict) =>
        /\ \A i \in DOMAIN apiCalls :
              apiCalls[i].request.origin_city # apiCalls[i].request.destination_city
        /\ Get(ran.results, "errorCode", NONE) = "MISSING_PARAMETERS"

(***************************************************************************)
(* POST /upload (main.py, upload_file).  Two requests are served at the    *)
(* same time: the endpoint is a coroutine that gives up control at every   *)
(* await, so the steps of the two requests interleave between awaits.      *)
(***************************************************************************)
\* the files a client uploads: zero bytes or one, an image or not
UploadFiles == [ size : { 0, 1 }, content_type : { "image/png", "text/plain" } ]

\* f"uploads/{conversation_id or 'general'}/{uuid4()}{file_ext}": a fresh key
\* for every request
upload_object_key(u) == IF u = "A" THEN "uploads/A" ELSE "uploads/B"

\* what _vision_client.extract_awb_from_image answers: it raises, or returns
\* a dict whose awb is a number or None
VisionOutcomes ==
    { [raised |-> TRUE],
      [raised |-> FALSE, value |-> UploadedFile.extracted_data],
      [raised |-> FALSE, value |-> UploadedFileNoAwb.extracted_data] }

\* the text-generation backends met by the automatic tracking call
AutoTrackBackends ==
    { b \in Backends : ~b.available \/ (~b.streaming /\ Len(b.chunks) <= 1) }

\* what upload_bytes returns for the request's file
upload_result(u) ==
    [object_key |-> uploads[u].object_key,
     url |-> "https://obs/" \o uploads[u].object_key,
     size |-> uploads[u].file.size,
     content_type |-> uploads[u].file.content_type]

\* raise HTTPException(status_code, detail) leaving the endpoint
HTTPException(status_code, detail) == [status_code |-> status_code, detail |-> detail]

\* the final "except Exception as e" of upload_file, which also catches an
\* HTTPException raised inside the try block: a 500 whose detail quotes
\* str(e), "400: Empty file not allowed" for the HTTPException of an empty file
upload_error(str_e) == HTTPException(500, "Failed to upload file: " \o str_e)

\* JSONResponse(content=response_data)
JSONResponse(content) == [status_code |-> 200, content |-> content]

\* response_data before the tracking details are added
response_data(u, extracted_data) ==
    LET base == upload_result(u) @@ [success |-> TRUE] IN
    IF DictTruthy(extracted_data) THEN Put(base, "extracted_data", extracted_data)
    ELSE base

\* SMSAAIAssistantStorageClient.store_conversation_context: the document is
\* serialised and put under the conversation's key; the upload succeeds or
\* raises
store_conversation_context(docs, cid, ctx, ok) ==
    IF ok THEN [raised |-> FALSE, docs |-> [docs EXCEPT ![cid] = ctx]]
    ELSE [raised |-> TRUE, docs |-> docs]

\* the context with the request's file metadata under files[object_key]
with_file_metadata(existing_context, u) ==
    LET files == Get(existing_context, "files", EmptyDict)
        metadata == upload_result(u) @@ [extracted_data |-> uploads[u].extracted_data]
    IN  Put(existing_context, "files", Put(files, uploads[u].object_key, metadata))

\* what is left of upload_file after the image was processed: the response,
\* or first the automatic tracking call when an AWB was extracted
AfterVision(u, extracted_data, stored) ==
    IF HasTruthy(extracted_data, "awb")
    THEN [uploads[u] EXCEPT !.pc = "auto_track", !.extracted_data = extracted_data,
                            !.stored = stored]
    ELSE [uploads[u] EXCEPT !.pc = "done", !.extracted_data = extracted_data,
                            !.stored = stored,
                            !.response = JSONResponse(response_data(u, extracted_data))]

\* the request arrives: await file.read() and the test for an empty file
UploadReceive(u) ==
    /\ uploads[u].pc = "idle"
    /\ \E file \in UploadFiles, cid \in { NONE } \cup ConversationIds :
          uploads' = [uploads EXCEPT ![u] =
             IF file.size = 0
             THEN [NoUpload EXCEPT
                      !.pc = "done", !.file = file, !.conversation_id = cid,
                      !.response = upload_error("400: Empty file not allowed")]
             ELSE [NoUpload EXCEPT
                      !.pc = "upload_bytes", !.file = file, !.conversation_id = cid,
                      !.object_key = upload_object_key(u)]]
    /\ UNCHANGED << bucket, wfvars, hvars, svars, evars >>

\* await _storage_client.upload_bytes(...), and the response for a file that
\* is not an image
UploadBytes(u) ==
    /\ uploads[u].pc = "upload_bytes"
    /\ \E ok \in CallOutcomes(dbMode) :
          IF ~ok
          THEN /\ uploads' = [uploads EXCEPT
                                 ![u].pc = "done",
                                 ![u].response = upload_error("Failed to upload to OBS")]
               /\ UNCHANGED bucket
          ELSE /\ bucket' = bucket \cup { uploads[u].object_key }
               /\ uploads' = [uploads EXCEPT ![u] =
                    IF uploads[u].file.content_type = "image/png"
                    THEN [@ EXCEPT !.pc = "vision"]
                    ELSE [@ EXCEPT !.pc = "done",
                                   !.response = JSONResponse(response_data(u, NoneDict))]]
    /\ UNCHANGED << wfvars, hvars, svars, evars >>

\* await _vision_client.extract_awb_from_image(file_bytes)
Vision(u) ==
    /\ uploads[u].pc = "vision"
    /\ \E vision \in VisionOutcomes :
          uploads' = [uploads EXCEPT ![u] =
             IF vision.raised
             THEN AfterVision(u, [error |-> "Vision processing failed"], FALSE)
             ELSE IF Truthy(uploads[u].conversation_id)
             THEN [@ EXCEPT !.pc = "get_context", !.extracted_data = vision.value]
             ELSE AfterVision(u, vision.value, FALSE)]
    /\ UNCHANGED << bucket, wfvars, hvars, svars, evars >>

\* await _storage_client.get_conversation_context(conversation_id) or {}
GetContext(u) ==
    /\ uploads[u].pc = "get_context"
    /\ \E outcome \in ObsOutcomes(dbMode) :
          LET got == get_conversation_context(obs, uploads[u].conversation_id, outcome) IN
          uploads' = [uploads EXCEPT ![u] =
             IF got.raised THEN AfterVision(u, uploads[u].extracted_data, FALSE)
             ELSE [@ EXCEPT !.pc = "store_context",
                            !.existing_context =
                                IF DictTruthy(got.value) THEN got.value ELSE EmptyDict]]
    /\ UNCHANGED << bucket, wfvars, hvars, svars, evars >>

\* the file metadata is put into the context that was read, and
\* await _storage_client.store_conversation_context(conversation_id, ...)
StoreContext(u) ==
    /\ uploads[u].pc = "store_context"
    /\ \E ok \in CallOutcomes(dbMode) :
          LET put == store_conversation_context(
                         obs, uploads[u].conversation_id,
                         with_file_metadata(uploads[u].existing_context, u), ok) IN
          /\ obs' = put.docs
          /\ uploads' = [uploads EXCEPT ![u] =
                            AfterVision(u, uploads[u].extracted_data, ~put.raised)]
    /\ UNCHANGED << bucket, hvars, svars, evars,
                    pc, entry, state, result, messages, conversations, clock, dbMode,
                    turns, consulted, llmReply, invoked, handlerRaised, context, stages,
                    dbCalls, log, events >>

\* await tracking_agent.run(...) for the extracted AWB, and the response
AutoTrack(u) ==
    /\ uploads[u].pc = "auto_track"
    /\ \E backend \in AutoTrackBackends, track \in TrackOutcomes :
          LET tracking_result ==
                  tracking_run([message |-> "track AWB 1234567890",
                                conversation_id |-> uploads[u].conversation_id],
                               backend, track).value
              data == response_data(u, uploads[u].extracted_data)
          IN  uploads' = [uploads EXCEPT
                 ![u].pc = "done",
                 ![u].response = JSONResponse(
                     IF tracking_result.content # << >>
                     THEN Put(data, "tracking_details", tracking_result.content)
                     ELSE data)]
    /\ UNCHANGED << bucket, wfvars, hvars, svars, evars >>

NextUploads ==
    \/ \E u \in UploadRequests : UploadReceive(u)
    \/ \E u \in UploadRequests : UploadBytes(u)
    \/ \E u \in UploadRequests : Vision(u)
    \/ \E u \in UploadRequests : GetContext(u)
    \/ \E u \in UploadRequests : StoreContext(u)
    \/ \E u \in UploadRequests : AutoTrack(u)

SpecUploads == Init /\ [][NextUploads]_vars

\* C27: an upload of a zero-byte file is answered with status 400 and the
\* detail "Empty file not allowed", not with a 500, and no object of that
\* request is put into the bucket.
C27_EmptyUploadIs400 ==
    \A u \in UploadRequests :
        (uploads[u].pc = "done" /\ uploads[u].file.size = 0) =>
            /\ uploads[u].response = HTTPException(400, "Empty file not allowed")
            /\ upload_object_key(u) \notin bucket

\* C29: with the storage backends up, when two image uploads for the same
\* conversation have both stored their context update, the stored context
\* holds the file metadata, with the extracted data, of both under files.
C29_BothFilesKept ==
    \A u, v \in UploadRequests :
        (/\ u # v
         /\ dbMode = "up"
         /\ uploads[u].pc = "done" /\ uploads[v].pc = "done"
         /\ uploads[u].stored /\ uploads[v].stored
         /\ uploads[u].conversation_id = uploads[v].conversation_id) =>
            LET stored == obs[uploads[u].conversation_id] IN
            /\ DictTruthy(stored)
            /\ "files" \in DOMAIN stored
            /\ \A w \in { u, v } :
                  /\ uploads[w].object_key \in DOMAIN stored.files
                  /\ stored.files[uploads[w].object_key].extracted_data
                        = uploads[w].extracted_data

(***************************************************************************)
(* Concurrent ensure_conversation_exists calls (services/db.py).  Each     *)
(* turn's _aggregate_response_node awaits the method; it awaits find_one   *)
(* and then insert_one, and the calls of other turns run between the two.  *)
(***************************************************************************)
\* the conversation ids the callers ask for
EnsureIds == { "c1", "c2" }

\* SMSAAIAssistantDatabaseManager.get_conversation: find_one by conversation
\* id; a database error is raised as RuntimeError
get_conversation(convs, cid, ok) ==
    IF ~ok THEN [raised |-> TRUE, value |-> NoneDict]
    ELSE IF \E i \in 1..Len(convs) : convs[i].conversation_id = cid
    THEN [raised |-> FALSE,
          value |-> convs[CHOOSE i \in 1..Len(convs) :
                             /\ convs[i].conversation_id = cid
                             /\ \A j \in 1..(i - 1) : convs[j].conversation_id # cid]]
    ELSE [raised |-> FALSE, value |-> NoneDict]

\* SMSAAIAssistantDatabaseManager.create_conversation: insert_one of a new
\* record with the given id; a database error is raised as RuntimeError
create_conversation(convs, now, cid, user_id, metadata, ok) ==
    IF ~ok THEN [raised |-> TRUE, conversations |-> convs]
    ELSE [raised |-> FALSE,
          conversations |-> Append(convs,
              [conversation_id |-> cid, user_id |-> user_id, created_at |-> now + 1,
               updated_at |-> now + 1, status |-> "active", metadata |-> metadata])]

\* ensure_conversation_exists is called
EnsureCall(e) ==
    /\ ensures[e].pc = "idle"
    /\ \E cid \in EnsureIds :
          ensures' = [ensures EXCEPT ![e].pc = "get_conversation",
                                     ![e].conversation_id = cid]
    /\ UNCHANGED << wfvars, hvars, svars, uvars >>

\* existing = await self.get_conversation(conversation_id)
EnsureFind(e) ==
    /\ ensures[e].pc = "get_conversation"
    /\ \E ok \in CallOutcomes(dbMode) :
          LET existing == get_conversation(conversations, ensures[e].conversation_id, ok) IN
          ensures' = [ensures EXCEPT ![e] =
             IF existing.raised THEN [@ EXCEPT !.pc = "done", !.value = FALSE]
             ELSE IF DictTruthy(existing.value) THEN [@ EXCEPT !.pc = "done", !.value = TRUE]
             ELSE [@ EXCEPT !.pc = "create_conversation"]]
    /\ UNCHANGED << wfvars, hvars, svars, uvars >>

\* await self.create_conversation(..., conversation_id=conversation_id)
EnsureCreate(e) ==
    /\ ensures[e].pc = "create_conversation"
    /\ \E ok \in CallOutcomes(dbMode) :
          LET created == create_conversation(
                             conversations, clock, ensures[e].conversation_id, "anonymous",
                             [intent |-> "GENERAL", selected_agent |-> NONE], ok) IN
          /\ conversations' = created.conversations
          /\ clock' = IF created.raised THEN clock ELSE clock + 1
          /\ ensures' = [ensures EXCEPT ![e].pc = "done", ![e].value = ~created.raised]
    /\ UNCHANGED << hvars, svars, uvars,
                    pc, entry, state, result, messages, obs, dbMode, turns, consulted,
                    llmReply, invoked, handlerRaised, context, stages, dbCalls, log, events >>

NextEnsures ==
    \/ \E e \in EnsureCallers : EnsureCall(e)
    \/ \E e \in EnsureCallers : EnsureFind(e)
    \/ \E e \in EnsureCallers : EnsureCreate(e)

SpecEnsures == Init /\ [][NextEnsures]_vars

\* the stored conversation records with a given id
RecordsOf(cid) == { i \in DOMAIN conversations : conversations[i].conversation_id = cid }

\* C28: whatever the interleaving of the ensure_conversation_exists calls for
\* one conversation id, the conversations collection holds at most one record
\* with that id.
C28_AtMostOneRecord ==
    \A cid \in EnsureIds : Cardinality(RecordsOf(cid)) <= 1

====
